---- MODULE Spec2Model ----
(***************************************************************************)
(* lswt 1.1.0 (src/lswt.c lines 1062-2096): the session state machine.     *)
(*                                                                         *)
(* The client is single threaded.  main() connects, asks for the registry, *)
(* issues a first wl_display_sync and then calls wl_display_dispatch in a  *)
(* loop; every listener runs inside that call.  The compositor is the      *)
(* environment: it handles the client's requests in the order they were    *)
(* sent and appends its events to one FIFO, which the client dispatches in *)
(* batches.                                                                *)
(***************************************************************************)
EXTENDS Integers, Sequences, FiniteSets, TLC

(* ---------------------------------------------------------------------- *)
(* Bounds of the model.                                                   *)
(* ---------------------------------------------------------------------- *)
\* Command line arguments after argv[0].
MaxArgs == 3
\* Events the compositor sends for one toplevel handle.
MaxRecordEvents == 3
\* Global advertisements the compositor sends in one run.
MaxGlobals == 2
\* Toplevel handles the compositor creates in one run.
MaxHandles == 2
\* Events the compositor sends outside the burst that answers a bind.
MaxExtra == 2

(* ---------------------------------------------------------------------- *)
(* Program constants.                                                     *)
(* ---------------------------------------------------------------------- *)
EXIT_SUCCESS == 0
EXIT_FAILURE == 1
\* registry_handle_global: "if ( version < 3 ) return;"
ZwlrMinVersion == 3
\* size_t longest_app_id = 7; // strlen("app-id:")
InitialLongestAppId == 7
max_app_id_padding == 40

\* A C string is a sequence of one-character strings; NULL is no string.
NULL == <<"NULL">>
Strings == { <<"f","o","o"," ","b","a","r","s">> }
StateTokens == {"maximized", "minimized", "activated", "fullscreen"}
StateSets == { {"maximized", "activated"} }

ZWLR == "zwlr_foreign_toplevel_manager_v1"
EXT == "ext_foreign_toplevel_list_v1"
WL_COMPOSITOR == "wl_compositor"
\* (interface, version) pairs the compositor may advertise.
Globals == { <<ZWLR, 2>>, <<ZWLR, 3>>, <<EXT, 1>>, <<WL_COMPOSITOR, 1>> }

Handles == 1..MaxHandles

VARIABLES
    pc,                     \* where main() is: start, loop, exit, killed
    exit_code,              \* what main() returned, -1 before it returns
    started,                \* how main() left its startup code
    dispatch_failed,        \* wl_display_dispatch returned <= 0
    loop, ret, sync,        \* globals loop, ret; static int sync
    sync_callback,          \* 0 (NULL) or the number of the pending sync request
    zwlr_toplevel_manager,  \* 0 (NULL) or the number of the bind that made it
    ext_toplevel_list,      \* 0 (NULL) or the number of the bind that made it
    support_fullscreen, support_activated, support_maximized,
    support_minimized, support_identifier,
    longest_app_id,
    mem,                    \* per handle: none, live (allocated), freed
    tl,                     \* per handle: the struct Toplevel its listener holds
    toplevels,              \* the wl_list, first element = head->next
    out,                    \* calls of the output functions, in order
    released,               \* objects destroyed by main()'s teardown, in order
    nsync, nbind, ncaps,    \* calls of wl_display_sync, wl_registry_bind,
                            \* update_capabilities so far
    oom,                    \* whether allocations may fail in this run
    argv,                   \* argv[1] .. argv[argc - 1]
    display_name,           \* getenv("WAYLAND_DISPLAY"), NULL when unset
    connect_ok,             \* whether wl_display_connect will succeed
    stdout_tty,             \* isatty(fileno(stdout))
    nconnect,               \* calls of wl_display_connect so far
    output_format, custom_output_format, debug_log,
    argi,                   \* main()'s i when it left the argument scan
    err,                    \* what was written to stderr, one tag per message
    reqs,                   \* requests sent and not yet handled by the compositor
    events,                 \* events read and not yet dispatched by the client
    srv,                    \* what the compositor did so far
    lswt104                 \* the globals and structs of lswt 1.0.4 (lines
                            \* 310-1059 of the source), which the program of
                            \* lines 1062-2096 does not have

capVars == <<support_fullscreen, support_activated, support_maximized,
             support_minimized, support_identifier>>
mgrVars == <<zwlr_toplevel_manager, ext_toplevel_list, nbind>>
syncVars == <<loop, ret, sync, sync_callback, nsync, ncaps>>
tlVars == <<mem, tl, toplevels, longest_app_id>>
\* The inputs of a run, and what no part of lswt 1.1.0 writes.
inputVars == <<oom, argv, display_name, connect_ok, stdout_tty, lswt104>>
optVars == <<output_format, custom_output_format, debug_log, argi>>
mainVars == <<pc, exit_code, started, dispatch_failed, out, released, nconnect,
              inputVars, optVars>>
vars == <<pc, exit_code, started, dispatch_failed, loop, ret, sync, sync_callback,
          zwlr_toplevel_manager, ext_toplevel_list, support_fullscreen,
          support_activated, support_maximized, support_minimized,
          support_identifier, longest_app_id, mem, tl, toplevels, out,
          released, nsync, nbind, ncaps, oom, argv, display_name, connect_ok,
          stdout_tty, nconnect, output_format, custom_output_format, debug_log, argi, err,
          reqs, events, srv, lswt104>>

\* lswt104 in the runs of lswt 1.1.0.
NotRun104 == <<>>

(* ---------------------------------------------------------------------- *)
(* Messages.                                                              *)
(* ---------------------------------------------------------------------- *)
\* One shape for every request and event: h is a handle or a bind number,
\* v a string or an interface name, n a version, s a set of state tokens.
Msg(type, h, v, n, s) == [type |-> type, h |-> h, v |-> v, n |-> n, s |-> s]

ReqGetRegistry == Msg("get_registry", 0, NULL, 0, {})
ReqSync(k) == Msg("sync", k, NULL, 0, {})
\* n = 1: the bind was sent before the second sync request.
ReqBind(k, iface, early) == Msg("bind", k, <<iface>>, IF early THEN 1 ELSE 0, {})

EvGlobal(iface, version) == Msg("global", 0, <<iface>>, version, {})
EvCallbackDone(k) == Msg("callback_done", k, NULL, 0, {})
EvToplevel(h, iface) == Msg("toplevel", h, <<iface>>, 0, {})
EvTitle(h, str) == Msg("title", h, str, 0, {})
EvAppId(h, str) == Msg("app_id", h, str, 0, {})
EvIdentifier(h, str) == Msg("identifier", h, str, 0, {})
EvState(h, states) == Msg("state", h, NULL, 0, states)
EvDone(h) == Msg("done", h, NULL, 0, {})
EvClosed(h) == Msg("closed", h, NULL, 0, {})

(* ---------------------------------------------------------------------- *)
(* struct Toplevel.                                                       *)
(* ---------------------------------------------------------------------- *)

\* toplevel_new that leaves the four flags set.
toplevel_new_flags_set ==
    [ zwlr_handle |-> 0, ext_handle |-> 0,
      title |-> NULL, app_id |-> NULL, identifier |-> NULL,
      fullscreen |-> TRUE, activated |-> TRUE,
      maximized |-> TRUE, minimized |-> TRUE,
      listed |-> FALSE ]

\* toplevel_new: calloc and the explicit initialisation.
toplevel_new ==
    [ zwlr_handle |-> 0, ext_handle |-> 0,
      title |-> NULL, app_id |-> NULL, identifier |-> NULL,
      fullscreen |-> FALSE, activated |-> FALSE,
      maximized |-> FALSE, minimized |-> FALSE,
      listed |-> FALSE ]

\* strdup: the copy, or NULL when the allocation fails.
strdup(str, fails) == IF fails THEN NULL ELSE str

\* Whether an allocation of this run may fail: never unless oom.
AllocOutcomes == IF oom THEN {FALSE, TRUE} ELSE {FALSE}

isspace(c) == c \in {" ", "\t", "\n"}

\* A byte above 127 stands for every character that is not ASCII.
NonAscii == {"0xC3"}
isascii(c) == c \notin NonAscii

\* strlen: one byte for each element.
strlen(str) == Len(str)

\* real_strlen: the bytes printed for str, two for each escaped character
\* and two more for the quotes when the string holds white space.
RECURSIVE real_strlen_from(_, _)
real_strlen_from(str, k) ==
    IF k > Len(str) THEN 0
    ELSE (IF str[k] \in {"\"", "\\", "\n", "\t"} THEN 2 ELSE 1)
         + real_strlen_from(str, k + 1)

real_strlen(str) ==
    real_strlen_from(str, 1)
    + (IF \E k \in 1..Len(str) :
             /\ str[k] \notin {"\"", "\\", "\n", "\t"}
             /\ isspace(str[k])
       THEN 2 ELSE 0)

(* ---------------------------------------------------------------------- *)
(* Capabilities.                                                          *)
(* ---------------------------------------------------------------------- *)
\* update_capabilities that marks every field as supported.
update_capabilities_all ==
    IF zwlr_toplevel_manager # 0 \/ ext_toplevel_list # 0
    THEN /\ support_fullscreen' = TRUE
         /\ support_activated' = TRUE
         /\ support_maximized' = TRUE
         /\ support_minimized' = TRUE
         /\ support_identifier' = TRUE
    ELSE UNCHANGED capVars

update_capabilities ==
    IF zwlr_toplevel_manager # 0
    THEN /\ support_fullscreen' = TRUE
         /\ support_activated' = TRUE
         /\ support_maximized' = TRUE
         /\ support_minimized' = TRUE
         /\ UNCHANGED support_identifier
    ELSE IF ext_toplevel_list # 0
    THEN /\ support_identifier' = TRUE
         /\ UNCHANGED <<support_fullscreen, support_activated,
                        support_maximized, support_minimized>>
    ELSE UNCHANGED capVars

(* ---------------------------------------------------------------------- *)
(* Toplevel: the setters and toplevel_done.                               *)
(* ---------------------------------------------------------------------- *)
\* toplevel_set_title that keeps a title once it is set.
toplevel_set_title_once(self, title, fails) ==
    /\ tl' = [tl EXCEPT ![self].title =
                 IF @ # NULL THEN @ ELSE strdup(title, fails)]
    /\ err' = IF fails THEN Append(err, "strdup") ELSE err
    /\ UNCHANGED <<mem, toplevels, longest_app_id>>

toplevel_set_title(self, title, fails) ==
    /\ tl' = [tl EXCEPT ![self].title = strdup(title, fails)]
    /\ err' = IF fails THEN Append(err, "strdup") ELSE err
    /\ UNCHANGED <<mem, toplevels, longest_app_id>>

toplevel_set_app_id(self, app_id, fails) ==
    /\ tl' = [tl EXCEPT ![self].app_id = strdup(app_id, fails)]
    /\ longest_app_id' =
          IF ~fails /\ real_strlen(app_id) > longest_app_id
                    /\ max_app_id_padding > real_strlen(app_id)
          THEN real_strlen(app_id)
          ELSE longest_app_id
    /\ err' = IF fails THEN Append(err, "strdup") ELSE err
    /\ UNCHANGED <<mem, toplevels>>

\* toplevel_set_identifier that logs a second identifier and keeps the
\* first.
toplevel_set_identifier_keep_first(self, identifier, fails) ==
    /\ tl' = [tl EXCEPT ![self].identifier =
                 IF @ # NULL THEN @ ELSE strdup(identifier, fails)]
    /\ err' = err \o (IF tl[self].identifier # NULL
                       THEN <<"identifier_changed">> ELSE <<>>)
                  \o (IF fails THEN <<"strdup">> ELSE <<>>)
    /\ UNCHANGED <<mem, toplevels, longest_app_id>>

toplevel_set_identifier(self, identifier, fails) ==
    /\ tl' = [tl EXCEPT ![self].identifier = strdup(identifier, fails)]
    /\ err' = err \o (IF tl[self].identifier # NULL
                       THEN <<"identifier_changed">> ELSE <<>>)
                  \o (IF fails THEN <<"strdup">> ELSE <<>>)
    /\ UNCHANGED <<mem, toplevels, longest_app_id>>

\* zwlr_foreign_handle_handle_state that only sets flags: a state event
\* taken as a delta.
zwlr_foreign_handle_handle_state_merge(self, states) ==
    /\ tl' = [tl EXCEPT ![self].fullscreen = @ \/ "fullscreen" \in states,
                        ![self].activated = @ \/ "activated" \in states,
                        ![self].minimized = @ \/ "minimized" \in states,
                        ![self].maximized = @ \/ "maximized" \in states]
    /\ UNCHANGED <<mem, toplevels, longest_app_id, err>>

\* zwlr_foreign_handle_handle_state: the four flags are computed from the
\* array and all four are stored.
zwlr_foreign_handle_handle_state(self, states) ==
    /\ tl' = [tl EXCEPT ![self].fullscreen = "fullscreen" \in states,
                        ![self].activated = "activated" \in states,
                        ![self].minimized = "minimized" \in states,
                        ![self].maximized = "maximized" \in states]
    /\ UNCHANGED <<mem, toplevels, longest_app_id, err>>

\* toplevel_done that inserts the record and leaves its listed flag as
\* it is.
toplevel_done_keeps_flag(self) ==
    IF tl[self].listed
    THEN UNCHANGED <<tlVars, err>>
    ELSE /\ toplevels' = <<self>> \o toplevels
         /\ UNCHANGED <<tl, mem, longest_app_id, err>>

\* toplevel_done without the "if (self->listed) return;" guard.
toplevel_done_unguarded(self) ==
    /\ tl' = [tl EXCEPT ![self].listed = TRUE]
    /\ toplevels' = <<self>> \o toplevels
    /\ UNCHANGED <<mem, longest_app_id, err>>

\* wl_list_insert(&toplevels, &self->link) puts self right after the head.
toplevel_done(self) ==
    IF tl[self].listed
    THEN UNCHANGED <<tlVars, err>>
    ELSE /\ tl' = [tl EXCEPT ![self].listed = TRUE]
         /\ toplevels' = <<self>> \o toplevels
         /\ UNCHANGED <<mem, longest_app_id, err>>

\* The announcement handlers storing the handle in both fields of the
\* record.
manager_handle_toplevel_both_handles(handle, interface, fails) ==
    IF fails
    THEN /\ err' = Append(err, "calloc")
         /\ UNCHANGED tlVars
    ELSE /\ mem' = [mem EXCEPT ![handle] = "live"]
         /\ tl' = [tl EXCEPT ![handle] =
                      [toplevel_new EXCEPT !.zwlr_handle = handle,
                                           !.ext_handle = handle]]
         /\ UNCHANGED <<toplevels, longest_app_id, err>>

\* zwlr_toplevel_manager_handle_toplevel and
\* ext_toplevel_list_handle_toplevel: a failed calloc leaves the handle
\* without a listener.
manager_handle_toplevel(handle, interface, fails) ==
    IF fails
    THEN /\ err' = Append(err, "calloc")
         /\ UNCHANGED tlVars
    ELSE /\ mem' = [mem EXCEPT ![handle] = "live"]
         /\ tl' = [tl EXCEPT ![handle] =
                      IF interface = ZWLR
                      THEN [toplevel_new EXCEPT !.zwlr_handle = handle]
                      ELSE [toplevel_new EXCEPT !.ext_handle = handle]]
         /\ UNCHANGED <<toplevels, longest_app_id, err>>

(* ---------------------------------------------------------------------- *)
(* The registry listener and the sync callback.                           *)
(* ---------------------------------------------------------------------- *)
\* registry_handle_global that binds nothing: the advertisement is left
\* for a later negotiation.
registry_handle_global_deferred(interface, version) ==
    UNCHANGED <<mgrVars, reqs>>

\* registry_handle_global without the two "already have the other one"
\* returns.
registry_handle_global_no_exclusion(interface, version) ==
    IF interface = ZWLR
    THEN IF version < ZwlrMinVersion
         THEN UNCHANGED <<mgrVars, reqs>>
         ELSE /\ nbind' = nbind + 1
              /\ zwlr_toplevel_manager' = nbind + 1
              /\ reqs' = Append(reqs, ReqBind(nbind + 1, ZWLR, nsync < 2))
              /\ UNCHANGED ext_toplevel_list
    ELSE IF interface = EXT
    THEN /\ nbind' = nbind + 1
         /\ ext_toplevel_list' = nbind + 1
         /\ reqs' = Append(reqs, ReqBind(nbind + 1, EXT, nsync < 2))
         /\ UNCHANGED zwlr_toplevel_manager
    ELSE UNCHANGED <<mgrVars, reqs>>

\* registry_handle_global that prefers the zwlr interface: it is bound
\* also when the ext list is, and the ext list is dropped for it.
registry_handle_global_prefer_zwlr(interface, version) ==
    IF interface = ZWLR
    THEN IF version < ZwlrMinVersion
         THEN UNCHANGED <<mgrVars, reqs>>
         ELSE /\ nbind' = nbind + 1
              /\ zwlr_toplevel_manager' = nbind + 1
              /\ ext_toplevel_list' = 0
              /\ reqs' = Append(reqs, ReqBind(nbind + 1, ZWLR, nsync < 2))
    ELSE IF interface = EXT
    THEN IF zwlr_toplevel_manager # 0
         THEN UNCHANGED <<mgrVars, reqs>>
         ELSE /\ nbind' = nbind + 1
              /\ ext_toplevel_list' = nbind + 1
              /\ reqs' = Append(reqs, ReqBind(nbind + 1, EXT, nsync < 2))
              /\ UNCHANGED zwlr_toplevel_manager
    ELSE UNCHANGED <<mgrVars, reqs>>

\* registry_handle_global without "if ( version < 3 ) return;".
registry_handle_global_any_version(interface, version) ==
    IF interface = ZWLR
    THEN IF ext_toplevel_list # 0
         THEN UNCHANGED <<mgrVars, reqs>>
         ELSE /\ nbind' = nbind + 1
              /\ zwlr_toplevel_manager' = nbind + 1
              /\ reqs' = Append(reqs, ReqBind(nbind + 1, ZWLR, nsync < 2))
              /\ UNCHANGED ext_toplevel_list
    ELSE IF interface = EXT
    THEN IF zwlr_toplevel_manager # 0
         THEN UNCHANGED <<mgrVars, reqs>>
         ELSE /\ nbind' = nbind + 1
              /\ ext_toplevel_list' = nbind + 1
              /\ reqs' = Append(reqs, ReqBind(nbind + 1, EXT, nsync < 2))
              /\ UNCHANGED zwlr_toplevel_manager
    ELSE UNCHANGED <<mgrVars, reqs>>

registry_handle_global(interface, version) ==
    IF interface = ZWLR
    THEN IF ext_toplevel_list # 0 \/ version < ZwlrMinVersion
         THEN UNCHANGED <<mgrVars, reqs>>
         ELSE /\ nbind' = nbind + 1
              /\ zwlr_toplevel_manager' = nbind + 1
              /\ reqs' = Append(reqs, ReqBind(nbind + 1, ZWLR, nsync < 2))
              /\ UNCHANGED ext_toplevel_list
    ELSE IF interface = EXT
    THEN IF zwlr_toplevel_manager # 0
         THEN UNCHANGED <<mgrVars, reqs>>
         ELSE /\ nbind' = nbind + 1
              /\ ext_toplevel_list' = nbind + 1
              /\ reqs' = Append(reqs, ReqBind(nbind + 1, EXT, nsync < 2))
              /\ UNCHANGED zwlr_toplevel_manager
    ELSE UNCHANGED <<mgrVars, reqs>>

\* sync_handle_done whose failure branch sets ret and leaves loop set.
sync_handle_done_failure_keeps_loop ==
    IF sync = 0
    THEN IF zwlr_toplevel_manager = 0 /\ ext_toplevel_list = 0
         THEN /\ sync_callback' = 0
              /\ err' = Append(err, "no_protocol")
              /\ ret' = EXIT_FAILURE
              /\ UNCHANGED <<loop, sync, nsync, ncaps, reqs, capVars>>
         ELSE /\ sync' = sync + 1
              /\ nsync' = nsync + 1
              /\ sync_callback' = nsync + 1
              /\ reqs' = Append(reqs, ReqSync(nsync + 1))
              /\ UNCHANGED <<loop, ret, ncaps, capVars, err>>
    ELSE /\ sync_callback' = 0
         /\ update_capabilities
         /\ ncaps' = ncaps + 1
         /\ loop' = FALSE
         /\ UNCHANGED <<ret, sync, nsync, reqs, err>>

\* sync_handle_done whose first call does not look at the two handles.
sync_handle_done_no_bound_check ==
    IF sync = 0
    THEN /\ sync' = sync + 1
         /\ nsync' = nsync + 1
         /\ sync_callback' = nsync + 1
         /\ reqs' = Append(reqs, ReqSync(nsync + 1))
         /\ UNCHANGED <<loop, ret, ncaps, capVars, err>>
    ELSE /\ sync_callback' = 0
         /\ update_capabilities
         /\ ncaps' = ncaps + 1
         /\ loop' = FALSE
         /\ UNCHANGED <<ret, sync, nsync, reqs, err>>

\* sync_handle_done with one sync only: the first call, with a handle
\* bound, does what the second does.
sync_handle_done_one_phase ==
    IF zwlr_toplevel_manager = 0 /\ ext_toplevel_list = 0
    THEN /\ sync_callback' = 0
         /\ err' = Append(err, "no_protocol")
         /\ ret' = EXIT_FAILURE
         /\ loop' = FALSE
         /\ UNCHANGED <<sync, nsync, ncaps, reqs, capVars>>
    ELSE /\ sync_callback' = 0
         /\ update_capabilities
         /\ ncaps' = ncaps + 1
         /\ loop' = FALSE
         /\ UNCHANGED <<ret, sync, nsync, reqs, err>>

sync_handle_done ==
    IF sync = 0
    THEN IF zwlr_toplevel_manager = 0 /\ ext_toplevel_list = 0
         THEN /\ sync_callback' = 0
              /\ err' = Append(err, "no_protocol")
              /\ ret' = EXIT_FAILURE
              /\ loop' = FALSE
              /\ UNCHANGED <<sync, nsync, ncaps, reqs, capVars>>
         ELSE /\ sync' = sync + 1
              /\ nsync' = nsync + 1
              /\ sync_callback' = nsync + 1
              /\ reqs' = Append(reqs, ReqSync(nsync + 1))
              /\ UNCHANGED <<loop, ret, ncaps, capVars, err>>
    ELSE /\ sync_callback' = 0
         /\ update_capabilities
         /\ ncaps' = ncaps + 1
         /\ loop' = FALSE
         /\ UNCHANGED <<ret, sync, nsync, reqs, err>>

(* ---------------------------------------------------------------------- *)
(* wl_display_dispatch: one event goes to the listener of its object.     *)
(* ---------------------------------------------------------------------- *)

\* The listeners of a toplevel handle that leave a record alone once it
\* is listed.
handle_listener_until_listed(e) ==
    IF mem[e.h] # "live" \/ tl[e.h].listed THEN UNCHANGED <<tlVars, err>>
    ELSE IF e.type = "title"
    THEN \E fails \in AllocOutcomes : toplevel_set_title(e.h, e.v, fails)
    ELSE IF e.type = "app_id"
    THEN \E fails \in AllocOutcomes : toplevel_set_app_id(e.h, e.v, fails)
    ELSE IF e.type = "identifier"
    THEN \E fails \in AllocOutcomes : toplevel_set_identifier(e.h, e.v, fails)
    ELSE IF e.type = "state"
    THEN zwlr_foreign_handle_handle_state(e.h, e.s)
    ELSE IF e.type = "done"
    THEN toplevel_done(e.h)
    ELSE UNCHANGED <<tlVars, err>>

\* The listeners of a toplevel handle with a closed handler that takes
\* the record out of the list.
handle_listener_closed_unlists(e) ==
    IF mem[e.h] # "live" THEN UNCHANGED <<tlVars, err>>
    ELSE IF e.type = "title"
    THEN \E fails \in AllocOutcomes : toplevel_set_title(e.h, e.v, fails)
    ELSE IF e.type = "app_id"
    THEN \E fails \in AllocOutcomes : toplevel_set_app_id(e.h, e.v, fails)
    ELSE IF e.type = "identifier"
    THEN \E fails \in AllocOutcomes : toplevel_set_identifier(e.h, e.v, fails)
    ELSE IF e.type = "state"
    THEN zwlr_foreign_handle_handle_state(e.h, e.s)
    ELSE IF e.type = "done"
    THEN toplevel_done(e.h)
    ELSE IF e.type = "closed"
    THEN /\ tl' = [tl EXCEPT ![e.h].listed = FALSE]
         /\ toplevels' = SelectSeq(toplevels, LAMBDA h : h # e.h)
         /\ UNCHANGED <<mem, longest_app_id, err>>
    ELSE UNCHANGED <<tlVars, err>>

\* The listeners of a toplevel handle (ext_handle_listener,
\* zwlr_handle_listener): closed and the other events are noop.  A handle
\* whose Toplevel was not allocated has no listener.
handle_listener(e) ==
    IF mem[e.h] # "live" THEN UNCHANGED <<tlVars, err>>
    ELSE IF e.type = "title"
    THEN \E fails \in AllocOutcomes : toplevel_set_title(e.h, e.v, fails)
    ELSE IF e.type = "app_id"
    THEN \E fails \in AllocOutcomes : toplevel_set_app_id(e.h, e.v, fails)
    ELSE IF e.type = "identifier"
    THEN \E fails \in AllocOutcomes : toplevel_set_identifier(e.h, e.v, fails)
    ELSE IF e.type = "state"
    THEN zwlr_foreign_handle_handle_state(e.h, e.s)
    ELSE IF e.type = "done"
    THEN toplevel_done(e.h)
    ELSE UNCHANGED <<tlVars, err>>

Deliver(e) ==
    IF e.type = "global"
    THEN /\ registry_handle_global(e.v[1], e.n)
         /\ UNCHANGED <<syncVars, capVars, tlVars, err>>
    ELSE IF e.type = "callback_done"
    THEN /\ sync_handle_done
         /\ UNCHANGED <<mgrVars, tlVars>>
    ELSE IF e.type = "toplevel"
    THEN /\ \E fails \in AllocOutcomes :
               manager_handle_toplevel(e.h, e.v[1], fails)
         /\ UNCHANGED <<syncVars, capVars, mgrVars, reqs>>
    ELSE /\ handle_listener(e)
         /\ UNCHANGED <<syncVars, capVars, mgrVars, reqs>>

(* ---------------------------------------------------------------------- *)
(* Command output.                                                        *)
(* ---------------------------------------------------------------------- *)
\* enum Output_format.
NORMAL == "NORMAL"
CUSTOM == "CUSTOM"
JSON == "JSON"

\* What is written to stdout is a sequence: a character of a string
\* value or of an escape sequence is one element, and so is a string
\* literal of the source that is written as a whole.
NullText == <<"<", "N", "U", "L", "L", ">">>
AppIdHeader == <<"a", "p", "p", "-", "i", "d", ":">>

BOOL_TO_STR(b) == IF b THEN "true" ELSE "false"

string_needs_quotes(str) ==
    \E k \in 1..Len(str) :
        isspace(str[k]) \/ str[k] = "\"" \/ str[k] = "'" \/ ~isascii(str[k])

\* The loop of quoted_fputs from str[k] on: what it writes.
RECURSIVE quoted_fputs_from(_, _)
quoted_fputs_from(str, k) ==
    IF k > Len(str) THEN <<>>
    ELSE (IF str[k] = "\"" THEN <<"\\", "\"">>
          ELSE IF str[k] = "\n" THEN <<"\\", "n">>
          ELSE IF str[k] = "\t" THEN <<"\\", "t">>
          ELSE <<str[k]>>)
         \o quoted_fputs_from(str, k + 1)

\* quoted_fputs: nothing for NULL, else the string between two quotes;
\* len is the number of bytes written.
quoted_fputs(str) ==
    IF str = NULL THEN [text |-> <<>>, len |-> 0]
    ELSE [text |-> <<"\"">> \o quoted_fputs_from(str, 1) \o <<"\"">>,
          len |-> 2 + Len(quoted_fputs_from(str, 1))]

write_padding(used_len, padding) ==
    IF padding > used_len
    THEN [i \in 1..(padding - used_len) |-> " "]
    ELSE <<>>

write_padded(padding, str) ==
    IF str = NULL
    THEN NullText \o write_padding(strlen(NullText), padding)
    ELSE str \o write_padding(strlen(str), padding)

write_padded_maybe_quoted(padding, str) ==
    IF str = NULL
    THEN NullText \o write_padding(strlen(NullText), padding)
    ELSE IF string_needs_quotes(str)
    THEN quoted_fputs(str).text \o write_padding(quoted_fputs(str).len, padding)
    ELSE str \o write_padding(strlen(str), padding)

write_maybe_quoted(str) ==
    IF str = NULL THEN NullText
    ELSE IF string_needs_quotes(str) THEN quoted_fputs(str).text
    ELSE str

\* Always quote strings, except if they are NULL.
write_json(str) ==
    IF str = NULL THEN <<"null">> ELSE quoted_fputs(str).text

\* Never quote strings, print "<NULL>" on NULL.
write_custom(str) ==
    IF str = NULL THEN NullText ELSE str

write_custom_optional(supported, str) ==
    IF supported THEN write_custom(str) ELSE <<"unsupported">>

\* write_custom_optional_bool that writes the flag whether it is
\* supported or not.
write_custom_optional_bool_always(supported, b) == << BOOL_TO_STR(b) >>

write_custom_optional_bool(supported, b) ==
    IF supported THEN << BOOL_TO_STR(b) >> ELSE <<"unsupported">>

\* fprintf with "%s" given a null pointer is undefined: the C library
\* writes "(null)", or the process is killed.
PrintfNull == {"(null)", "SIGSEGV"}

\* fprintf(stdout, "%s", str): the bytes of str as they are.
printf_s(str, null_s) == IF str = NULL THEN <<null_s>> ELSE str

\* The JSON branch of out_write_toplevel without the tests of the
\* support flags: every field is written.
out_write_toplevel_json_every_field(toplevel, json_prev, null_s) ==
    (IF json_prev THEN <<",\n">> ELSE <<>>)
    \o <<"        {\n">>
    \o <<"            \"activated\": ", BOOL_TO_STR(toplevel.activated), ",\n">>
    \o <<"            \"fullscreen\": ", BOOL_TO_STR(toplevel.fullscreen), ",\n">>
    \o <<"            \"minimized\": ", BOOL_TO_STR(toplevel.minimized), ",\n">>
    \o <<"            \"maximized\": ", BOOL_TO_STR(toplevel.maximized), ",\n">>
    \o <<"            \"identifier\": ">>
    \o printf_s(toplevel.identifier, null_s) \o <<",\n">>
    \o <<"            \"title\": ">> \o write_json(toplevel.title)
    \o <<",\n            \"app-id\": ">> \o write_json(toplevel.app_id)
    \o <<"\n        }">>

\* The JSON branch of out_write_toplevel.
out_write_toplevel_json(toplevel, json_prev, null_s) ==
    (IF json_prev THEN <<",\n">> ELSE <<>>)
    \o <<"        {\n">>
    \o (IF support_activated
        THEN <<"            \"activated\": ", BOOL_TO_STR(toplevel.activated), ",\n">>
        ELSE <<>>)
    \o (IF support_fullscreen
        THEN <<"            \"fullscreen\": ", BOOL_TO_STR(toplevel.fullscreen), ",\n">>
        ELSE <<>>)
    \o (IF support_minimized
        THEN <<"            \"minimized\": ", BOOL_TO_STR(toplevel.minimized), ",\n">>
        ELSE <<>>)
    \o (IF support_maximized
        THEN <<"            \"maximized\": ", BOOL_TO_STR(toplevel.maximized), ",\n">>
        ELSE <<>>)
    \o (IF support_identifier
        THEN <<"            \"identifier\": ">>
             \o printf_s(toplevel.identifier, null_s) \o <<",\n">>
        ELSE <<>>)
    \o <<"            \"title\": ">> \o write_json(toplevel.title)
    \o <<",\n            \"app-id\": ">> \o write_json(toplevel.app_id)
    \o <<"\n        }">>

\* The switch of the custom branch: what one field code writes.
write_custom_field(code, toplevel) ==
    IF code = "t" THEN write_custom(toplevel.title)
    ELSE IF code = "a" THEN write_custom(toplevel.app_id)
    ELSE IF code = "i"
    THEN write_custom_optional(support_identifier, toplevel.identifier)
    ELSE IF code = "A"
    THEN write_custom_optional_bool(support_activated, toplevel.activated)
    ELSE IF code = "f"
    THEN write_custom_optional_bool(support_fullscreen, toplevel.fullscreen)
    ELSE IF code = "m"
    THEN write_custom_optional_bool(support_minimized, toplevel.minimized)
    ELSE write_custom_optional_bool(support_maximized, toplevel.maximized)

\* The loop of the custom branch from fmt[k] on; the delimiter is written
\* before every field but the first.
RECURSIVE out_write_toplevel_custom(_, _, _)
out_write_toplevel_custom(fmt, k, toplevel) ==
    IF k > Len(fmt) THEN <<>>
    ELSE (IF k > 2 THEN <<fmt[1]>> ELSE <<>>)
         \o write_custom_field(fmt[k], toplevel)
         \o out_write_toplevel_custom(fmt, k + 1, toplevel)

\* out_write_toplevel: what it writes for this record.  json_prev is the
\* static flag: whether a record was written before.
out_write_toplevel(toplevel, json_prev, null_s) ==
    IF output_format = NORMAL
    THEN write_padded_maybe_quoted(longest_app_id, toplevel.app_id)
         \o <<"   ">> \o write_maybe_quoted(toplevel.title) \o <<"\n">>
    ELSE IF output_format = JSON
    THEN out_write_toplevel_json(toplevel, json_prev, null_s)
    ELSE out_write_toplevel_custom(custom_output_format, 2, toplevel)
         \o <<"\n">>

\* Whether one of the assertions of the custom branch fails:
\* custom_output_format is NULL, it is not longer than one character, or
\* a field code reaches the default case.
custom_assert_fails ==
    \/ custom_output_format = NULL
    \/ strlen(custom_output_format) <= 1
    \/ \E k \in 2..Len(custom_output_format) :
          custom_output_format[k] \notin {"t", "a", "i", "A", "f", "m", "M"}

\* Whether out_write_toplevel ends the process: an assertion of the
\* custom branch fails, or fprintf is given a null identifier and the C
\* library does not take it.
out_write_toplevel_aborts(toplevel, null_s) ==
    \/ output_format = CUSTOM /\ custom_assert_fails
    \/ /\ output_format = JSON /\ support_identifier
       /\ toplevel.identifier = NULL /\ null_s = "SIGSEGV"

\* out_start; tty is isatty(fileno(stdout)).
out_start(tty) ==
    IF output_format = NORMAL
    THEN (IF tty THEN <<"ESC[0;1m">> ELSE <<>>)
         \o write_padded(longest_app_id, AppIdHeader)
         \o <<"   ", "title:", "\n">>
         \o (IF tty THEN <<"ESC[0m">> ELSE <<>>)
    ELSE IF output_format = JSON
    THEN << "{\n    \"supported-data\": {\n        \"title\": true,\n        \"app-id\": true,\n        \"identifier\": ",
            BOOL_TO_STR(support_identifier),
            ",\n        \"fullscreen\": ", BOOL_TO_STR(support_fullscreen),
            ",\n        \"activated\": ", BOOL_TO_STR(support_activated),
            ",\n        \"minimized\": ", BOOL_TO_STR(support_minimized),
            ",\n        \"maximized\": ", BOOL_TO_STR(support_maximized),
            "\n    },\n    \"toplevels\": [\n" >>
    ELSE <<>>

out_finish ==
    IF output_format = JSON THEN <<"\n    ]\n}\n">> ELSE <<>>

(* ---------------------------------------------------------------------- *)
(* main().                                                                *)
(* ---------------------------------------------------------------------- *)
\* How main() can leave its startup code: the argument scan ends in an
\* error or in -h/-v, WAYLAND_DISPLAY is unset, wl_display_connect fails,
\* or the display is connected.
StartupOutcomes ==
    {"usage_error", "help_or_version", "no_display_name", "connect_failed",
     "connected"}

\* The command line arguments main() compares argv[i] with.
Arg_j == <<"-", "j">>
Arg_json == <<"-", "-", "j", "s", "o", "n">>
Arg_c == <<"-", "c">>
Arg_custom == <<"-", "-", "c", "u", "s", "t", "o", "m">>
Arg_debug == <<"-", "-", "d", "e", "b", "u", "g">>
Arg_v == <<"-", "v">>
Arg_version == <<"-", "-", "v", "e", "r", "s", "i", "o", "n">>
Arg_h == <<"-", "h">>
Arg_help == <<"-", "-", "h", "e", "l", "p">>

FieldCodes == {"t", "a", "i", "A", "f", "m", "M"}

\* out_check_custom_format whose loop starts at the delimiter.
out_check_custom_format_from_delimiter(fmt) ==
    IF Len(fmt) = 1 \/ Len(fmt) = 0
    THEN [ok |-> FALSE, err |-> <<"format_too_short">>]
    ELSE IF ~isascii(fmt[1])
    THEN [ok |-> FALSE, err |-> <<"format_delimiter">>]
    ELSE IF \E k \in 1..Len(fmt) : fmt[k] \notin FieldCodes
    THEN [ok |-> FALSE, err |-> <<"format_unknown_field">>]
    ELSE [ok |-> TRUE, err |-> <<>>]

\* out_check_custom_format: whether fmt is valid, and the message printed
\* when it is not.
out_check_custom_format(fmt) ==
    IF Len(fmt) = 1 \/ Len(fmt) = 0
    THEN [ok |-> FALSE, err |-> <<"format_too_short">>]
    ELSE IF ~isascii(fmt[1])
    THEN [ok |-> FALSE, err |-> <<"format_delimiter">>]
    ELSE IF \E k \in 2..Len(fmt) : fmt[k] \notin FieldCodes
    THEN [ok |-> FALSE, err |-> <<"format_unknown_field">>]
    ELSE [ok |-> TRUE, err |-> <<>>]

\* main() before the argument scan.
ScanStart ==
    [ how |-> "scanned", i |-> 1, output_format |-> NORMAL,
      custom_output_format |-> NULL, debug_log |-> FALSE, err |-> <<>> ]

\* A goto cleanup of the argument scan, at argv[i].
ScanStop(st, i, how, messages) ==
    [st EXCEPT !.how = how, !.i = i, !.err = @ \o messages]

\* The argument scan without the two "output format may only be
\* specified once" tests.
RECURSIVE scan_args_last_format_wins(_, _, _, _)
scan_args_last_format_wins(args, i, st, fails) ==
    IF i > Len(args) THEN [st EXCEPT !.i = i]
    ELSE IF args[i] \in {Arg_j, Arg_json}
    THEN scan_args_last_format_wins(args, i + 1,
                                    [st EXCEPT !.output_format = JSON], fails)
    ELSE IF args[i] \in {Arg_c, Arg_custom}
    THEN IF Len(args) = i
         THEN ScanStop(st, i, "usage_error", <<"requires_parameter">>)
         ELSE IF ~out_check_custom_format(args[i + 1]).ok
         THEN ScanStop(st, i, "usage_error",
                       out_check_custom_format(args[i + 1]).err)
         ELSE scan_args_last_format_wins(args, i + 2,
                        [st EXCEPT !.output_format = CUSTOM,
                                   !.custom_output_format =
                                        strdup(args[i + 1], fails)],
                        fails)
    ELSE IF args[i] = Arg_debug
    THEN scan_args_last_format_wins(args, i + 1, [st EXCEPT !.debug_log = TRUE], fails)
    ELSE IF args[i] \in {Arg_v, Arg_version}
    THEN ScanStop(st, i, "help_or_version", <<"version">>)
    ELSE IF args[i] \in {Arg_h, Arg_help}
    THEN ScanStop(st, i, "help_or_version", <<"usage">>)
    ELSE ScanStop(st, i, "usage_error", <<"invalid_option", "usage">>)

\* The argument scan of main(), from argv[i] on: "for (int i = 1; i <
\* argc; i++)".  args[k] is argv[k]; fails is whether the strdup of the
\* custom format fails.
RECURSIVE scan_args(_, _, _, _)
scan_args(args, i, st, fails) ==
    IF i > Len(args) THEN [st EXCEPT !.i = i]
    ELSE IF args[i] \in {Arg_j, Arg_json}
    THEN IF st.output_format # NORMAL
         THEN ScanStop(st, i, "usage_error", <<"format_twice">>)
         ELSE scan_args(args, i + 1, [st EXCEPT !.output_format = JSON], fails)
    ELSE IF args[i] \in {Arg_c, Arg_custom}
    THEN IF st.output_format # NORMAL
         THEN ScanStop(st, i, "usage_error", <<"format_twice">>)
         ELSE IF Len(args) = i
         THEN ScanStop(st, i, "usage_error", <<"requires_parameter">>)
         ELSE IF ~out_check_custom_format(args[i + 1]).ok
         THEN ScanStop(st, i, "usage_error",
                       out_check_custom_format(args[i + 1]).err)
         ELSE scan_args(args, i + 2,
                        [st EXCEPT !.output_format = CUSTOM,
                                   !.custom_output_format =
                                        strdup(args[i + 1], fails)],
                        fails)
    ELSE IF args[i] = Arg_debug
    THEN scan_args(args, i + 1, [st EXCEPT !.debug_log = TRUE], fails)
    ELSE IF args[i] \in {Arg_v, Arg_version}
    THEN ScanStop(st, i, "help_or_version", <<"version">>)
    ELSE IF args[i] \in {Arg_h, Arg_help}
    THEN ScanStop(st, i, "help_or_version", <<"usage">>)
    ELSE ScanStop(st, i, "usage_error", <<"invalid_option", "usage">>)

\* main() after an accepted command line, without the test of
\* display_name: wl_display_connect is called with NULL.
main_connect_without_name(st) ==
    IF st.how # "scanned" THEN st.how
    ELSE IF ~connect_ok THEN "connect_failed"
    ELSE "connected"

\* How main() leaves its startup code: by a goto cleanup of the argument
\* scan, or after getenv("WAYLAND_DISPLAY") and wl_display_connect.
main_connect(st) ==
    IF st.how # "scanned" THEN st.how
    ELSE IF display_name = NULL THEN "no_display_name"
    ELSE IF ~connect_ok THEN "connect_failed"
    ELSE "connected"

\* ret set to EXIT_FAILURE before every goto cleanup.
startup_ret_failure(how) == EXIT_FAILURE

\* The value ret is given before a goto cleanup.
startup_ret(how) ==
    IF how = "help_or_version" THEN EXIT_SUCCESS ELSE EXIT_FAILURE

\* main() up to the drive loop.  The argument scan, getenv and
\* wl_display_connect each end in a goto cleanup or go on; connected,
\* main() asks for the registry and issues the first sync.
MainStartup ==
    /\ pc = "start"
    /\ \E fails \in AllocOutcomes :
          LET st == scan_args(argv, 1, ScanStart, fails)
              how == main_connect(st)
          IN /\ started' = how
             /\ output_format' = st.output_format
             /\ custom_output_format' = st.custom_output_format
             /\ debug_log' = st.debug_log
             /\ argi' = st.i
             /\ nconnect' = IF how \in {"connect_failed", "connected"}
                            THEN nconnect + 1 ELSE nconnect
             /\ err' = err \o st.err
                           \o (IF how = "no_display_name"
                               THEN <<"no_display">>
                               ELSE IF how = "connect_failed"
                               THEN <<"cannot_connect">> ELSE <<>>)
             /\ IF how = "connected"
                THEN /\ pc' = "loop"
                     /\ reqs' = <<ReqGetRegistry, ReqSync(1)>>
                     /\ sync_callback' = 1
                     /\ nsync' = 1
                     /\ UNCHANGED <<ret, exit_code>>
                ELSE /\ pc' = "exit"
                     /\ ret' = startup_ret(how)
                     /\ exit_code' = ret'
                     /\ UNCHANGED <<reqs, sync_callback, nsync>>
    /\ UNCHANGED <<dispatch_failed, loop, sync, mgrVars, capVars,
                   tlVars, out, released, ncaps, inputVars, events, srv>>

\* while ( loop && wl_display_dispatch(wl_display) > 0 ): one call
\* dispatches every event it has read, and loop is looked at again only
\* after the last of them.  So an event is dispatched while the loop
\* runs, also when a listener of the same call has already cleared loop.
Dispatch ==
    /\ pc = "loop"
    /\ events # <<>>
    /\ Deliver(Head(events))
    /\ events' = Tail(events)
    /\ UNCHANGED <<mainVars, srv>>

InSeq(x, seq) == \E k \in 1..Len(seq) : seq[k] = x

Reverse(seq) == [k \in 1..Len(seq) |-> seq[Len(seq) + 1 - k]]

\* One call of an output function: for which record, the record as it
\* was, and what the call wrote.
OutCall(op, self, t, text) == [op |-> op, self |-> self, t |-> t, text |-> text]

\* toplevel_destroy: what it destroys, in order.
toplevel_destroy(self) ==
    (IF tl[self].zwlr_handle # 0 THEN << <<"zwlr_handle", self>> >> ELSE <<>>)
    \o (IF tl[self].ext_handle # 0 THEN << <<"ext_handle", self>> >> ELSE <<>>)
    \o << <<"Toplevel", self>> >>

RECURSIVE DestroyEach(_)
DestroyEach(list) ==
    IF list = <<>> THEN <<>>
    ELSE toplevel_destroy(Head(list)) \o DestroyEach(Tail(list))

\* The body of dump_and_free_data for the records in this order:
\* out_start, for each record out_write_toplevel and toplevel_destroy,
\* then out_finish.  When out_write_toplevel ends the process, the calls
\* before it are all there is.
dump_in_order(list, null_s, tty) ==
    LET aborting == { k \in 1..Len(list) :
                        out_write_toplevel_aborts(tl[list[k]], null_s) }
        last == IF aborting = {} THEN Len(list)
                ELSE (CHOOSE k \in aborting : \A j \in aborting : k <= j) - 1
    IN [ out |-> << OutCall("out_start", 0, toplevel_new, out_start(tty)) >>
                 \o [k \in 1..last |->
                       OutCall("out_write_toplevel", list[k], tl[list[k]],
                               out_write_toplevel(tl[list[k]], k > 1, null_s))]
                 \o (IF aborting = {}
                     THEN << OutCall("out_finish", 0, toplevel_new, out_finish) >>
                     ELSE <<>>),
         released |-> DestroyEach(SubSeq(list, 1, last)),
         aborted |-> aborting # {} ]

\* dump_and_free_data walking the list with wl_list_for_each_safe, from
\* its head to its tail.
dump_and_free_data_forward(null_s, tty) ==
    dump_in_order(toplevels, null_s, tty)

\* dump_and_free_data: wl_list_for_each_reverse_safe walks from the tail
\* of the list to its head.
dump_and_free_data(null_s, tty) ==
    dump_in_order(Reverse(toplevels), null_s, tty)

\* free_data: toplevel_destroy from the head of the list to its tail.
free_data ==
    [ out |-> out, released |-> DestroyEach(toplevels), aborted |-> FALSE ]

\* The cleanup of main() from the connection to the sync callback:
\* parents before children.
WaylandCleanup_parents_first ==
    << <<"wl_display", 0>>, <<"wl_registry", 0>> >>
    \o (IF ext_toplevel_list # 0
        THEN << <<"ext_toplevel_list", ext_toplevel_list>> >> ELSE <<>>)
    \o (IF zwlr_toplevel_manager # 0
        THEN << <<"zwlr_toplevel_manager", zwlr_toplevel_manager>> >> ELSE <<>>)
    \o (IF sync_callback # 0 THEN << <<"sync_callback", sync_callback>> >> ELSE <<>>)

\* The objects main() destroys after the toplevels, in order.
WaylandCleanup ==
    (IF sync_callback # 0 THEN << <<"sync_callback", sync_callback>> >> ELSE <<>>)
    \o (IF zwlr_toplevel_manager # 0
        THEN << <<"zwlr_toplevel_manager", zwlr_toplevel_manager>> >> ELSE <<>>)
    \o (IF ext_toplevel_list # 0
        THEN << <<"ext_toplevel_list", ext_toplevel_list>> >> ELSE <<>>)
    \o << <<"wl_registry", 0>>, <<"wl_display", 0>> >>

\* main() after the loop without the test of ret.
main_after_loop_always_dump(null_s, tty) == dump_and_free_data(null_s, tty)

\* main() after the loop: "if ( ret == EXIT_SUCCESS ) dump_and_free_data();
\* else free_data();", then the Wayland objects are destroyed.
main_after_loop(null_s, tty) ==
    IF ret = EXIT_SUCCESS THEN dump_and_free_data(null_s, tty) ELSE free_data

\* What main() does between the loop and "return ret".  A process that
\* is killed in out_write_toplevel does not return.
Teardown ==
    /\ \E null_s \in PrintfNull :
       \E run \in { main_after_loop(null_s, stdout_tty) } :
          /\ out' = run.out
          /\ released' = IF run.aborted THEN run.released
                         ELSE run.released \o WaylandCleanup
          /\ mem' = [h \in Handles |->
                       IF InSeq(<<"Toplevel", h>>, run.released)
                       THEN "freed" ELSE mem[h]]
          /\ toplevels' = SelectSeq(toplevels,
                LAMBDA h : ~InSeq(<<"Toplevel", h>>, run.released))
          /\ pc' = IF run.aborted THEN "killed" ELSE "exit"
          /\ exit_code' = IF run.aborted THEN exit_code ELSE ret
    /\ UNCHANGED <<started, syncVars, mgrVars, capVars, tl, longest_app_id,
                   nconnect, inputVars, optVars, err, reqs, events, srv>>

\* wl_display_dispatch returns 0 or -1 while loop is set: the loop ends
\* and ret is not touched.  The call fails when it reads, which it does
\* only with nothing left to dispatch.
DispatchError ==
    /\ pc = "loop" /\ loop /\ events = <<>>
    /\ dispatch_failed' = TRUE
    /\ Teardown

\* The call has dispatched every event it had read, and the loop
\* condition finds loop cleared.
LoopEnd ==
    /\ pc = "loop" /\ ~loop /\ events = <<>>
    /\ UNCHANGED dispatch_failed
    /\ Teardown

(* ---------------------------------------------------------------------- *)
(* The compositor.                                                        *)
(* ---------------------------------------------------------------------- *)
\* The compositor and the client interact through the two FIFOs only, so
\* the events the client dispatches, and their order, are the same whether
\* the compositor runs ahead of the client or not.  The compositor takes
\* its next step when the client has dispatched what it has read; what
\* one request is answered with arrives as a whole.  Events that arrive
\* while loop is cleared are events of the dispatch call that cleared it.
SrvTurn == pc = "loop" /\ events = <<>>

\* The events a bind is answered with: for each toplevel that exists, its
\* announcement and, when its initial state is complete, its done.
RECURSIVE Burst(_, _, _, _)
Burst(first, last, interface, ready) ==
    IF first > last THEN <<>>
    ELSE << EvToplevel(first, interface) >>
         \o (IF first \in ready THEN << EvDone(first) >> ELSE <<>>)
         \o Burst(first + 1, last, interface, ready)

\* The handles first..last that are in set, in increasing order.
RECURSIVE FromTo(_, _, _)
FromTo(first, last, set) ==
    IF first > last THEN <<>>
    ELSE (IF first \in set THEN <<first>> ELSE <<>>)
         \o FromTo(first + 1, last, set)

\* wl_display.get_registry is handled: from now on globals are advertised.
SrvGetRegistry ==
    /\ SrvTurn /\ reqs # <<>> /\ Head(reqs).type = "get_registry"
    /\ reqs' = Tail(reqs)
    /\ srv' = [srv EXCEPT !.registry = TRUE]
    /\ UNCHANGED <<mainVars, err, syncVars, mgrVars, capVars, tlVars, events>>

\* An advertisement of dialect A at a sufficient version, or of dialect B.
Eligible(g) == (g[1] = ZWLR /\ g[2] >= ZwlrMinVersion) \/ g[1] = EXT

\* wl_registry.global, at any time once the registry exists.
SrvAdvertise ==
    /\ SrvTurn /\ srv.registry /\ srv.nads < MaxGlobals
    /\ \E g \in Globals :
          /\ events' = Append(events, EvGlobal(g[1], g[2]))
          /\ srv' = [srv EXCEPT
                !.nads = @ + 1,
                !.advertised = @ \cup {g},
                !.first = IF @ = "none" /\ Eligible(g) THEN g[1] ELSE @]
    /\ UNCHANGED <<mainVars, err, syncVars, mgrVars, capVars, tlVars, reqs>>

\* wl_display.sync is handled: its callback's done follows every event
\* sent before.
SrvSync ==
    /\ SrvTurn /\ reqs # <<>> /\ Head(reqs).type = "sync"
    /\ reqs' = Tail(reqs)
    /\ events' = Append(events, EvCallbackDone(Head(reqs).h))
    /\ srv' = [srv EXCEPT !.acked = @ \cup {Head(reqs).h}]
    /\ UNCHANGED <<mainVars, err, syncVars, mgrVars, capVars, tlVars>>

\* wl_registry.bind of a manager or list is handled: the toplevels that
\* exist are announced.
SrvBind ==
    /\ SrvTurn /\ reqs # <<>> /\ Head(reqs).type = "bind"
    /\ reqs' = Tail(reqs)
    /\ \E n \in 0..(MaxHandles - srv.nh) :
       \E ready \in SUBSET ((srv.nh + 1)..(srv.nh + n)) :
          /\ events' = events \o Burst(srv.nh + 1, srv.nh + n,
                                       Head(reqs).v[1], ready)
          /\ srv' = [srv EXCEPT
                !.nh = @ + n,
                !.bound = @ \cup {Head(reqs).v[1]},
                !.kind = [h \in Handles |->
                            IF h \in (srv.nh + 1)..(srv.nh + n)
                            THEN Head(reqs).v[1] ELSE @[h]],
                !.burst = IF Head(reqs).n = 1
                          THEN @ \cup ((srv.nh + 1)..(srv.nh + n)) ELSE @,
                !.first_done = @ \o FromTo(srv.nh + 1, srv.nh + n, ready),
                !.done_before_ack2 = IF 2 \in srv.acked THEN @ ELSE @ \cup ready]
    /\ UNCHANGED <<mainVars, err, syncVars, mgrVars, capVars, tlVars>>

\* What a bound manager or list may send later: a new toplevel, or an
\* event of a handle it has announced.  state is an event of the zwlr
\* handle only, identifier one of the ext handle only.  The title stands
\* for the string events here; every sequence of title, app-id,
\* identifier and state events of a handle is in SpecRecord.
ExtraEvents ==
    { EvToplevel(srv.nh + 1, i) : i \in IF srv.nh < MaxHandles THEN srv.bound ELSE {} }
    \cup UNION { { EvTitle(h, str) : str \in Strings }
                 \cup { EvDone(h), EvClosed(h) }
                 \cup (IF srv.kind[h] = ZWLR
                       THEN { EvState(h, states) : states \in StateSets }
                       ELSE { EvIdentifier(h, str) : str \in Strings })
                 : h \in { x \in Handles : srv.kind[x] # "none" } }

SrvEmit ==
    /\ SrvTurn /\ srv.nextra < MaxExtra
    /\ \E e \in ExtraEvents :
          /\ events' = Append(events, e)
          /\ srv' = [srv EXCEPT
                !.nextra = @ + 1,
                !.nh = IF e.type = "toplevel" THEN @ + 1 ELSE @,
                !.kind = IF e.type = "toplevel"
                         THEN [@ EXCEPT ![e.h] = e.v[1]] ELSE @,
                !.done_again = IF e.type = "done" /\ InSeq(e.h, srv.first_done)
                               THEN @ \cup {e.h} ELSE @,
                !.first_done = IF e.type = "done" /\ ~InSeq(e.h, srv.first_done)
                               THEN Append(@, e.h) ELSE @,
                !.done_before_ack2 =
                    IF e.type = "done" /\ 2 \notin srv.acked
                    THEN @ \cup {e.h} ELSE @]
    /\ UNCHANGED <<mainVars, err, syncVars, mgrVars, capVars, tlVars, reqs>>

(* ---------------------------------------------------------------------- *)
(* The specification.                                                     *)
(* ---------------------------------------------------------------------- *)
InitSrv ==
    [ registry |-> FALSE,   \* get_registry was handled
      nads |-> 0,           \* globals advertised
      advertised |-> {},    \* the (interface, version) pairs advertised
      first |-> "none",     \* the interface of the first advertisement
                            \* that is dialect A at version 3 or higher
                            \* or dialect B
      bound |-> {},         \* the interfaces a bind was handled for
      nh |-> 0,             \* handles created
      kind |-> [h \in Handles |-> "none"],  \* the interface of each handle
      nextra |-> 0,         \* events sent by SrvEmit
      acked |-> {},         \* the sync requests answered
      first_done |-> <<>>,  \* handles in the order of their first done
      done_again |-> {},    \* handles whose done was sent more than once
      burst |-> {},         \* handles announced in answer to a bind that
                            \* was sent before the second sync request
      done_before_ack2 |-> {} ] \* handles whose done was sent before the
                            \* second sync was answered

InitProgram ==
    /\ pc = "start" /\ started = "no" /\ exit_code = -1
    /\ dispatch_failed = FALSE
    /\ loop = TRUE /\ ret = EXIT_SUCCESS /\ sync = 0
    /\ sync_callback = 0
    /\ zwlr_toplevel_manager = 0 /\ ext_toplevel_list = 0
    /\ support_fullscreen = FALSE /\ support_activated = FALSE
    /\ support_maximized = FALSE /\ support_minimized = FALSE
    /\ support_identifier = FALSE
    /\ longest_app_id = InitialLongestAppId
    /\ mem = [h \in Handles |-> "none"]
    /\ tl = [h \in Handles |-> toplevel_new]
    /\ toplevels = <<>>
    /\ out = <<>> /\ released = <<>> /\ err = <<>>
    /\ nconnect = 0 /\ argi = 0
    /\ output_format = NORMAL /\ custom_output_format = NULL
    /\ debug_log = FALSE
    /\ nsync = 0 /\ nbind = 0 /\ ncaps = 0
    /\ reqs = <<>> /\ events = <<>>
    /\ srv = InitSrv

\* A display name, as WAYLAND_DISPLAY holds it.
DisplayNames == { <<"w", "a", "y", "l", "a", "n", "d", "-", "1">> }

\* The command lines of the session runs: none of them selects an output
\* format.
SessionArgvs == { <<>>, <<Arg_h>>, <<Arg_debug, <<"-", "x">> >> }

\* Runs in which no allocation fails and stdout is not a terminal.
Init ==
    /\ InitProgram
    /\ oom = FALSE
    /\ stdout_tty = FALSE
    /\ lswt104 = NotRun104
    /\ argv \in SessionArgvs
    /\ display_name \in DisplayNames \cup {NULL}
    /\ connect_ok \in BOOLEAN

Next ==
    \/ MainStartup
    \/ Dispatch
    \/ DispatchError
    \/ LoopEnd
    \/ SrvGetRegistry
    \/ SrvAdvertise
    \/ SrvSync
    \/ SrvBind
    \/ SrvEmit

Spec == Init /\ [][Next]_vars

(* ---------------------------------------------------------------------- *)
(* The session with the transport up and a compositor that answers.       *)
(* ---------------------------------------------------------------------- *)
\* wl_display_dispatch never fails.
NextLive ==
    \/ MainStartup
    \/ Dispatch
    \/ LoopEnd
    \/ SrvGetRegistry
    \/ SrvAdvertise
    \/ SrvSync
    \/ SrvBind
    \/ SrvEmit

\* main() runs on: it starts, dispatches what it has read and leaves the
\* loop when the condition fails.  The compositor handles every request
\* it was sent, in order; what it advertises or sends of its own it may
\* or may not.
SpecLive ==
    /\ Init /\ [][NextLive]_vars
    /\ WF_vars(MainStartup) /\ WF_vars(Dispatch) /\ WF_vars(LoopEnd)
    /\ WF_vars(SrvGetRegistry) /\ WF_vars(SrvSync) /\ WF_vars(SrvBind)

(* ---------------------------------------------------------------------- *)
(* The startup of main() over its command lines.                          *)
(* ---------------------------------------------------------------------- *)
\* What follows -c on the command lines tried: empty, delimiter only,
\* valid, every field code, unknown codes, a delimiter that is not ASCII.
Formats ==
    { <<>>, <<",">>, <<",", "t">>,
      <<":", "t", "a", "i", "A", "f", "m", "M">>,
      <<",", "x">>, <<",", "t", "x">>, <<"0xC3", "t">> }

Args ==
    { Arg_j, Arg_json, Arg_c, Arg_custom, Arg_debug, Arg_v, Arg_version,
      Arg_h, Arg_help, <<"-", "x">> } \cup Formats

Argvs == UNION { [1..n -> Args] : n \in 0..MaxArgs }

InitArgs ==
    /\ InitProgram
    /\ oom \in BOOLEAN
    /\ stdout_tty = FALSE
    /\ lswt104 = NotRun104
    /\ argv \in Argvs
    /\ display_name \in DisplayNames \cup {NULL}
    /\ connect_ok \in BOOLEAN

NextArgs == MainStartup

SpecArgs == InitArgs /\ [][NextArgs]_vars

(* ---------------------------------------------------------------------- *)
(* Properties.                                                            *)
(* ---------------------------------------------------------------------- *)
\* The Registry of the specification: the records in the order they were
\* inserted, which is the list read from its tail to its head.
Registry == Reverse(toplevels)

NoDuplicates(seq) == \A i, j \in 1..Len(seq) : seq[i] = seq[j] => i = j

Pos(x, seq) == CHOOSE k \in 1..Len(seq) : seq[k] = x

\* The handles out_write_toplevel was called for, in the order of the calls.
RenderedHandles ==
    LET writes == SelectSeq(out, LAMBDA c : c.op = "out_write_toplevel")
    IN [k \in 1..Len(writes) |-> writes[k].self]

\* The step in which the client dispatches the event e.
Handles_(e) == pc = "loop" /\ events # <<>> /\ Head(events) = e
               /\ events' = Tail(events)

\* No advertisement is waiting to be dispatched.
AdsHandled == \A k \in 1..Len(events) : events[k].type # "global"

\* wl_registry_bind was called for this interface at some time.
BindRequested(interface) ==
    \/ interface \in srv.bound
    \/ \E k \in 1..Len(reqs) : reqs[k].type = "bind" /\ reqs[k].v = <<interface>>

BothAdvertised ==
    \E g \in srv.advertised : g[1] = ZWLR /\ g[2] >= ZwlrMinVersion
                              /\ \E b \in srv.advertised : b[1] = EXT

CapabilitiesOfZwlr ==
    /\ support_fullscreen /\ support_activated /\ support_maximized
    /\ support_minimized /\ ~support_identifier

CapabilitiesOfExt ==
    /\ ~support_fullscreen /\ ~support_activated /\ ~support_maximized
    /\ ~support_minimized /\ support_identifier

\* C1: a record is in the Registry at most once, and it is there exactly
\* when its listed flag is set; the first done of a record sets the flag
\* and appends the record to the Registry, and every later done of the
\* same record leaves the Registry and every record unchanged.
C1_DoneStep ==
    \A h \in Handles :
        (Handles_(EvDone(h)) /\ mem[h] = "live") =>
            IF tl[h].listed
            THEN UNCHANGED <<tl, toplevels>>
            ELSE /\ tl' = [tl EXCEPT ![h].listed = TRUE]
                 /\ Registry' = Append(Registry, h)

C1_AtMostOnce ==
    /\ [](/\ NoDuplicates(toplevels)
          /\ pc = "loop" =>
               \A h \in Handles : tl[h].listed <=> InSeq(h, toplevels))
    /\ [][C1_DoneStep]_vars

\* C1's case: a second done of a listed record was dispatched, and the
\* record is in the Registry once.
C1_Witness ==
    /\ pc = "loop" /\ events = <<>>
    /\ \E h \in srv.done_again : tl[h].listed /\ toplevels = <<h>>

\* C2: the records are rendered in the order of their first done events;
\* of two records x and y, x announced before y and y's first done sent
\* before x's, y is rendered before x.
C2_RenderOrder ==
    (pc = "exit" /\ out # <<>>) =>
        /\ RenderedHandles = srv.first_done
        /\ \A x, y \in Handles :
              (/\ x < y
               /\ InSeq(x, srv.first_done) /\ InSeq(y, srv.first_done)
               /\ Pos(y, srv.first_done) < Pos(x, srv.first_done))
              => Pos(y, RenderedHandles) < Pos(x, RenderedHandles)

\* C2's case: handle 1 was announced before handle 2, the done of 2 came
\* first, and both were rendered.
C2_Witness ==
    /\ pc = "exit" /\ srv.first_done = <<2, 1>>
    /\ Len(RenderedHandles) = 2

\* C3, as the code has it: when dialect A at version 3 or higher and
\* dialect B are both advertised, the dialect of the first of these
\* advertisements is the one that is bound, the other dialect is never
\* bound, and the capabilities resolved are those of the bound dialect.
C3_FirstAdvertisedIsBound ==
    (BothAdvertised /\ AdsHandled) =>
        /\ srv.first = ZWLR =>
              /\ zwlr_toplevel_manager # 0 /\ ext_toplevel_list = 0
              /\ ~BindRequested(EXT)
              /\ ncaps > 0 => CapabilitiesOfZwlr
        /\ srv.first = EXT =>
              /\ ext_toplevel_list # 0 /\ zwlr_toplevel_manager = 0
              /\ ~BindRequested(ZWLR)
              /\ ncaps > 0 => CapabilitiesOfExt
        /\ srv.first \in {ZWLR, EXT}

\* C3's case: dialect B was advertised before dialect A at version 3, and
\* the capabilities were resolved.
C3_Witness ==
    /\ BothAdvertised /\ AdsHandled /\ srv.first = EXT
    /\ ext_toplevel_list # 0 /\ ncaps > 0 /\ CapabilitiesOfExt

\* C3, as the specification has it: when dialect A at version 3 or higher
\* and dialect B are both advertised, in any order, dialect A is bound,
\* dialect B is never bound and the capabilities resolved are dialect A's.
C3_ZwlrPreferred ==
    (BothAdvertised /\ AdsHandled) =>
        /\ zwlr_toplevel_manager # 0
        /\ ~BindRequested(EXT)
        /\ ncaps > 0 => CapabilitiesOfZwlr

\* C4: in every reachable state at most one of zwlr_toplevel_manager and
\* ext_toplevel_list is non-null.
C4_AtMostOneHandle ==
    zwlr_toplevel_manager = 0 \/ ext_toplevel_list = 0

\* C4's case: both dialects were advertised, dialect A first, both
\* advertisements were dispatched, and one handle is set.
C4_Witness ==
    /\ BothAdvertised /\ AdsHandled /\ srv.first = ZWLR
    /\ zwlr_toplevel_manager # 0 /\ ext_toplevel_list = 0

\* C5: when wl_display_dispatch fails while loop is still set, the
\* session ends as a failure: ret is EXIT_FAILURE, nothing was written by
\* the output functions, and main() returns 1.
C5_DispatchFailureIsFailure ==
    (pc = "exit" /\ dispatch_failed) =>
        /\ ret = EXIT_FAILURE
        /\ exit_code = EXIT_FAILURE
        /\ out = <<>>

\* No eligible advertisement was sent: none of dialect B, none of
\* dialect A at version 3 or higher.
NothingToBind == \A g \in srv.advertised : ~Eligible(g)

\* The acknowledgment of this sync was sent and dispatched.
Acknowledged(k) ==
    /\ k \in srv.acked
    /\ \A j \in 1..Len(events) : events[j] # EvCallbackDone(k)

SyncRequested(k) ==
    \/ k \in srv.acked
    \/ \E j \in 1..Len(reqs) : reqs[j] = ReqSync(k)

\* C6: when neither handle is set at the acknowledgment of sync #1, the
\* handler sets ret to EXIT_FAILURE and clears loop, requests no second
\* sync and does not resolve the capabilities; from then on there is one
\* sync request only, update_capabilities has never run, nothing is
\* written by the output functions, and main() returns 1.
C6_AckUnboundStep ==
    (/\ Handles_(EvCallbackDone(1))
     /\ zwlr_toplevel_manager = 0 /\ ext_toplevel_list = 0) =>
        /\ ret' = EXIT_FAILURE /\ ~loop'
        /\ UNCHANGED <<nsync, reqs, ncaps, capVars>>

C6_UnboundAtAckFails ==
    /\ [][C6_AckUnboundStep]_vars
    /\ []((started = "connected" /\ ret = EXIT_FAILURE) =>
            /\ ~loop
            /\ nsync = 1 /\ ~SyncRequested(2)
            /\ ncaps = 0 /\ out = <<>>
            /\ pc = "exit" => exit_code = EXIT_FAILURE)

\* C6's case: sync #1 was acknowledged with nothing advertised, and
\* main() has returned.
C6_Witness ==
    /\ pc = "exit" /\ Acknowledged(1) /\ srv.advertised = {}
    /\ ret = EXIT_FAILURE /\ exit_code = EXIT_FAILURE /\ out = <<>>

\* C7: when loop has been cleared by the acknowledgment of sync #2, every
\* bind sent before the second sync request has been handled by the
\* compositor and every toplevel it announced in answer has its record;
\* every toplevel whose done was sent before that acknowledgment is in
\* the Registry, and is rendered when main() renders.
C7_BurstHandledBeforeRender ==
    (started = "connected" /\ ~loop /\ ret = EXIT_SUCCESS) =>
        /\ Acknowledged(2)
        /\ \A k \in 1..Len(reqs) : ~(reqs[k].type = "bind" /\ reqs[k].n = 1)
        /\ \A h \in srv.burst : mem[h] # "none"
        /\ \A h \in srv.done_before_ack2 :
              /\ tl[h].listed
              /\ pc = "loop" => InSeq(h, Registry)
              /\ pc = "exit" => InSeq(h, RenderedHandles)

\* C7's case: the bind was answered with two toplevels, one of them with
\* its done, and main() has rendered.
C7_Witness ==
    /\ pc = "exit" /\ ~loop /\ ret = EXIT_SUCCESS
    /\ srv.burst = {1, 2} /\ srv.done_before_ack2 = {2}
    /\ RenderedHandles = <<2>>

\* C8: dispatching an advertisement of dialect A at a version below 3
\* changes no handle and sends no request; when sync #1 is acknowledged
\* and only such advertisements of the two dialects were sent, ret is
\* EXIT_FAILURE, loop is cleared, and main() returns 1.
C8_LowVersionStep ==
    \A version \in 0..(ZwlrMinVersion - 1) :
        Handles_(EvGlobal(ZWLR, version)) => UNCHANGED <<mgrVars, reqs>>

C8_LowVersionNeverBinds ==
    /\ [][C8_LowVersionStep]_vars
    /\ []((/\ Acknowledged(1) /\ NothingToBind
           /\ \E g \in srv.advertised : g[1] = ZWLR) =>
            /\ ret = EXIT_FAILURE /\ ~loop
            /\ zwlr_toplevel_manager = 0 /\ nbind = 0
            /\ pc = "exit" => exit_code = EXIT_FAILURE)

\* C8's case: dialect A was advertised at version 2 before sync #1 was
\* acknowledged, nothing else of the two dialects, and main() has
\* returned.
C8_Witness ==
    /\ pc = "exit" /\ Acknowledged(1) /\ NothingToBind
    /\ <<ZWLR, 2>> \in srv.advertised
    /\ exit_code = EXIT_FAILURE

\* C9: when the loop has ended, the output functions were called exactly
\* when ret was EXIT_SUCCESS, and then for the whole Registry between
\* out_start and out_finish; with ret EXIT_FAILURE nothing was written;
\* main() returns ret.
C9_LoopExitStep ==
    (pc = "loop" /\ pc' = "exit") =>
        /\ ret' = ret /\ exit_code' = ret
        /\ ret = EXIT_SUCCESS =>
              /\ Head(out').op = "out_start"
              /\ out'[Len(out')].op = "out_finish"
              /\ Len(out') = Len(Registry) + 2
              /\ RenderedHandles' = Registry
        /\ ret # EXIT_SUCCESS => out' = <<>>

C9_RenderedIffSuccess ==
    /\ [][C9_LoopExitStep]_vars
    /\ []((pc = "exit" /\ started = "connected") =>
            /\ (out # <<>>) <=> (ret = EXIT_SUCCESS)
            /\ ret \in {EXIT_SUCCESS, EXIT_FAILURE}
            /\ exit_code = ret)
    /\ [](pc # "exit" => out = <<>>)

\* C9's case: the session failed with a record in the Registry, and
\* nothing was written.
C9_Witness ==
    /\ pc = "exit" /\ started = "connected" /\ ret = EXIT_FAILURE
    /\ \E h \in Handles : tl[h].listed /\ mem[h] = "freed"
    /\ out = <<>> /\ exit_code = EXIT_FAILURE

\* C10: when main() returns, no struct Toplevel allocated in the run is
\* still allocated, and toplevel_destroy has run for each of them.
C10_NoRecordLeaked ==
    pc = "exit" =>
        \A h \in Handles :
            mem[h] # "none" =>
                /\ mem[h] = "freed"
                /\ InSeq(<<"Toplevel", h>>, released)

(* ---------------------------------------------------------------------- *)
(* One record and the events of its handle.                               *)
(* ---------------------------------------------------------------------- *)
RecordStrings ==
    { <<"a">>, <<"b", "c">>, <<"f", "o", "o", " ", "b", "a", "r", "s">> }

RecordStateSets ==
    { {}, {"maximized"}, {"activated", "fullscreen"}, StateTokens }

\* The events of the handle h of a manager or list of this interface.
RecordEvents(h, interface) ==
    { EvTitle(h, str) : str \in RecordStrings }
    \cup { EvAppId(h, str) : str \in RecordStrings }
    \cup { EvDone(h), EvClosed(h) }
    \cup (IF interface = ZWLR
          THEN { EvState(h, states) : states \in RecordStateSets }
          ELSE { EvIdentifier(h, str) : str \in RecordStrings })

\* The session after its first toplevel was announced: the interface is
\* bound, sync #1 was acknowledged, sync #2 is requested, and handle 1
\* has its record.
InitRecord ==
    /\ pc = "loop" /\ started = "connected" /\ exit_code = -1
    /\ dispatch_failed = FALSE
    /\ loop = TRUE /\ ret = EXIT_SUCCESS /\ sync = 1
    /\ sync_callback = 2 /\ nsync = 2 /\ nbind = 1 /\ ncaps = 0
    /\ support_fullscreen = FALSE /\ support_activated = FALSE
    /\ support_maximized = FALSE /\ support_minimized = FALSE
    /\ support_identifier = FALSE
    /\ longest_app_id = InitialLongestAppId
    /\ mem = [h \in Handles |-> IF h = 1 THEN "live" ELSE "none"]
    /\ toplevels = <<>>
    /\ out = <<>> /\ released = <<>> /\ err = <<>>
    /\ nconnect = 1 /\ argi = 1 /\ argv = <<>>
    /\ display_name \in DisplayNames /\ connect_ok = TRUE
    /\ output_format = NORMAL /\ custom_output_format = NULL
    /\ debug_log = FALSE
    /\ oom \in BOOLEAN
    /\ stdout_tty = FALSE
    /\ lswt104 = NotRun104
    /\ reqs = <<ReqSync(2)>> /\ events = <<>>
    /\ \E interface \in {ZWLR, EXT} :
          /\ zwlr_toplevel_manager = (IF interface = ZWLR THEN 1 ELSE 0)
          /\ ext_toplevel_list = (IF interface = EXT THEN 1 ELSE 0)
          /\ tl = [h \in Handles |->
                     IF h # 1 THEN toplevel_new
                     ELSE IF interface = ZWLR
                     THEN [toplevel_new EXCEPT !.zwlr_handle = 1]
                     ELSE [toplevel_new EXCEPT !.ext_handle = 1]]
          /\ srv = [ kind |-> [h \in Handles |->
                                 IF h = 1 THEN interface ELSE "none"],
                     acked |-> {1},
                     log |-> <<>> ]   \* the events sent for handle 1

\* The compositor sends an event of handle 1.
SrvRecordEvent ==
    /\ SrvTurn /\ Len(srv.log) < MaxRecordEvents
    /\ \E e \in RecordEvents(1, srv.kind[1]) :
          /\ events' = Append(events, e)
          /\ srv' = [srv EXCEPT !.log = Append(@, e)]
    /\ UNCHANGED <<mainVars, err, syncVars, mgrVars, capVars, tlVars, reqs>>

NextRecord ==
    \/ SrvRecordEvent
    \/ SrvSync
    \/ Dispatch
    \/ LoopEnd

SpecRecord == InitRecord /\ [][NextRecord]_vars

(* ---------------------------------------------------------------------- *)
(* The end of a session: the records are rendered.                        *)
(* ---------------------------------------------------------------------- *)
\* The strings of the records rendered: plain ones, and one with a
\* double quote, a backslash, a newline and a tab.
RenderStrings ==
    { <<"T", "e", "r", "m">>, <<"f", "o", "o">>,
      <<"a", "\"", "\\", "\n", "\t", "b">> }

RenderStateSets ==
    { {}, {"maximized"}, {"activated", "fullscreen"}, StateTokens }

\* The custom formats of the runs rendered.
RenderFormats ==
    { <<"|", "t", "a", "M">>, <<":", "t", "a", "i", "A", "f", "m", "M">>,
      <<",", "i">> }

\* Custom formats that out_check_custom_format turns down: no run gets
\* as far as rendering with them.
RejectedFormats == { <<",">>, <<",", "x">>, <<"|", "t", "x">> }

\* The command lines that select each output format.
RenderArgvs ==
    { <<>>, <<Arg_json>> } \cup { <<Arg_c, fmt>> : fmt \in RenderFormats }
    \cup { <<Arg_c, fmt>> : fmt \in RejectedFormats }

\* longest_app_id after toplevel_set_app_id was called with ids[k],
\* ids[k + 1], ...; cur is its value before.
RECURSIVE longest_app_id_after(_, _, _)
longest_app_id_after(ids, k, cur) ==
    IF k > Len(ids) THEN cur
    ELSE longest_app_id_after(ids, k + 1,
            IF ids[k] # NULL /\ real_strlen(ids[k]) > cur
                             /\ max_app_id_padding > real_strlen(ids[k])
            THEN real_strlen(ids[k]) ELSE cur)

\* A record of this interface as its events left it.  The identifier is
\* set by the ext handle only, the four flags by the zwlr handle only.
RenderRecords(h, interface) ==
    IF interface = ZWLR
    THEN { [toplevel_new EXCEPT !.zwlr_handle = h, !.listed = TRUE,
                                !.title = title, !.app_id = app_id,
                                !.fullscreen = "fullscreen" \in states,
                                !.activated = "activated" \in states,
                                !.minimized = "minimized" \in states,
                                !.maximized = "maximized" \in states]
           : title \in RenderStrings \cup {NULL},
             app_id \in RenderStrings \cup {NULL},
             states \in RenderStateSets }
    ELSE { [toplevel_new EXCEPT !.ext_handle = h, !.listed = TRUE,
                                !.title = title, !.app_id = app_id,
                                !.identifier = identifier]
           : title \in RenderStrings \cup {NULL},
             app_id \in RenderStrings \cup {NULL},
             identifier \in RenderStrings \cup {NULL} }

\* The session when its loop is about to end: the command line selected
\* a format, the interface is bound, both syncs were acknowledged, the
\* capabilities are resolved, and the records 1..n are in the list, each
\* with its done dispatched.  Record 1 is any record; the later ones are
\* all alike.
InitRender ==
    /\ pc = "loop" /\ started = "connected" /\ exit_code = -1
    /\ dispatch_failed = FALSE
    /\ loop = FALSE /\ ret = EXIT_SUCCESS /\ sync = 1
    /\ sync_callback = 0 /\ nsync = 2 /\ nbind = 1 /\ ncaps = 1
    /\ out = <<>> /\ released = <<>> /\ err = <<>>
    /\ nconnect = 1 /\ oom \in BOOLEAN
    /\ stdout_tty \in BOOLEAN
    /\ lswt104 = NotRun104
    /\ display_name \in DisplayNames /\ connect_ok = TRUE
    /\ argv \in RenderArgvs
    /\ \E fails \in AllocOutcomes :
          LET st == scan_args(argv, 1, ScanStart, fails)
          IN /\ st.how = "scanned"
             /\ output_format = st.output_format
             /\ custom_output_format = st.custom_output_format
             /\ debug_log = st.debug_log
             /\ argi = st.i
    /\ reqs = <<>> /\ events = <<>>
    /\ \E interface \in {ZWLR, EXT}, n \in Handles :
          /\ zwlr_toplevel_manager = (IF interface = ZWLR THEN 1 ELSE 0)
          /\ ext_toplevel_list = (IF interface = EXT THEN 1 ELSE 0)
          /\ support_fullscreen = (interface = ZWLR)
          /\ support_activated = (interface = ZWLR)
          /\ support_maximized = (interface = ZWLR)
          /\ support_minimized = (interface = ZWLR)
          /\ support_identifier = (interface = EXT)
          /\ mem = [h \in Handles |-> IF h <= n THEN "live" ELSE "none"]
          /\ toplevels = [k \in 1..n |-> n + 1 - k]
          /\ \E first \in RenderRecords(1, interface) :
                tl = [h \in Handles |->
                        IF h = 1 THEN first
                        ELSE IF h > n THEN toplevel_new
                        ELSE IF interface = ZWLR
                        THEN [toplevel_new EXCEPT
                                 !.zwlr_handle = h, !.listed = TRUE,
                                 !.title = <<"f", "o", "o">>,
                                 !.app_id = <<"f", "o", "o">>]
                        ELSE [toplevel_new EXCEPT
                                 !.ext_handle = h, !.listed = TRUE,
                                 !.title = <<"f", "o", "o">>,
                                 !.app_id = <<"f", "o", "o">>,
                                 !.identifier = <<"f", "o", "o">>]]
          /\ longest_app_id =
                longest_app_id_after([h \in 1..n |-> tl[h].app_id], 1,
                                     InitialLongestAppId)
          /\ srv = [ kind |-> [h \in Handles |->
                                 IF h <= n THEN interface ELSE "none"],
                     acked |-> {1, 2},
                     log |-> <<>> ]

NextRender == LoopEnd

SpecRender == InitRender /\ [][NextRender]_vars

(* ---------------------------------------------------------------------- *)
(* Listed records and the events that follow their done.                  *)
(* ---------------------------------------------------------------------- *)
ListedStrings == { <<"a">>, <<"b", "c">> }

ListedStateSets == { {"maximized"}, {"activated", "fullscreen"} }

\* What the handle h of a manager or list of this interface may send
\* after its first done.
ListedEvents(h, interface) ==
    { EvTitle(h, str) : str \in ListedStrings }
    \cup { EvAppId(h, str) : str \in ListedStrings }
    \cup { EvDone(h) }
    \cup (IF interface = ZWLR
          THEN { EvState(h, states) : states \in ListedStateSets }
          ELSE { EvIdentifier(h, str) : str \in ListedStrings })

\* The list after the done of handle 1, then 2, ... was dispatched.
ListedOrder == [k \in 1..MaxHandles |-> MaxHandles + 1 - k]

\* The session after every handle was announced and had its first done,
\* in the order of the handles, with no other event yet: the interface is
\* bound, sync #1 was acknowledged and sync #2 is requested.  No
\* allocation fails.
InitListed ==
    /\ pc = "loop" /\ started = "connected" /\ exit_code = -1
    /\ dispatch_failed = FALSE
    /\ loop = TRUE /\ ret = EXIT_SUCCESS /\ sync = 1
    /\ sync_callback = 2 /\ nsync = 2 /\ nbind = 1 /\ ncaps = 0
    /\ support_fullscreen = FALSE /\ support_activated = FALSE
    /\ support_maximized = FALSE /\ support_minimized = FALSE
    /\ support_identifier = FALSE
    /\ longest_app_id = InitialLongestAppId
    /\ mem = [h \in Handles |-> "live"]
    /\ toplevels = ListedOrder
    /\ out = <<>> /\ released = <<>> /\ err = <<>>
    /\ nconnect = 1 /\ argi = 1 /\ argv = <<>>
    /\ display_name \in DisplayNames /\ connect_ok = TRUE
    /\ output_format = NORMAL /\ custom_output_format = NULL
    /\ debug_log = FALSE
    /\ oom = FALSE
    /\ stdout_tty = FALSE
    /\ lswt104 = NotRun104
    /\ reqs = <<ReqSync(2)>> /\ events = <<>>
    /\ \E interface \in {ZWLR, EXT} :
          /\ zwlr_toplevel_manager = (IF interface = ZWLR THEN 1 ELSE 0)
          /\ ext_toplevel_list = (IF interface = EXT THEN 1 ELSE 0)
          /\ tl = [h \in Handles |->
                     IF interface = ZWLR
                     THEN [toplevel_new EXCEPT !.zwlr_handle = h,
                                               !.listed = TRUE]
                     ELSE [toplevel_new EXCEPT !.ext_handle = h,
                                               !.listed = TRUE]]
          /\ srv = [ kind |-> [h \in Handles |-> interface],
                     acked |-> {1},
                     log |-> <<>> ]   \* the events sent since

\* The compositor sends an event of one of the handles.
SrvListedEvent ==
    /\ SrvTurn /\ Len(srv.log) < MaxRecordEvents
    /\ \E h \in Handles :
       \E e \in ListedEvents(h, srv.kind[h]) :
          /\ events' = Append(events, e)
          /\ srv' = [srv EXCEPT !.log = Append(@, e)]
    /\ UNCHANGED <<mainVars, err, syncVars, mgrVars, capVars, tlVars, reqs>>

NextListed ==
    \/ SrvListedEvent
    \/ SrvSync
    \/ Dispatch
    \/ LoopEnd

SpecListed == InitListed /\ [][NextListed]_vars

(* ---------------------------------------------------------------------- *)
(* The app-id events and the width of the app-id column.                  *)
(* ---------------------------------------------------------------------- *)
\* n bytes that need no quotes and no escape.
Plain(n) == [k \in 1..n |-> "x"]

\* The app-ids tried: short, with a space, with a single quote, with
\* backslashes, one byte below max_app_id_padding and exactly that long.
AppIdStrings ==
    { <<"f", "o", "o">>,
      <<"f", "o", "o", " ", "b", "a", "r", "s">>,
      <<"i", "t", "'", "s", "-", "a", "p", "p">>,
      <<"a", "\\", "b", "\\", "c", "\\", "d">>,
      Plain(max_app_id_padding - 1), Plain(max_app_id_padding) }

\* The session after every handle was announced, with no event of a
\* handle yet: the interface is bound, sync #1 was acknowledged and sync
\* #2 is requested.  No allocation fails.
InitAppId ==
    /\ pc = "loop" /\ started = "connected" /\ exit_code = -1
    /\ dispatch_failed = FALSE
    /\ loop = TRUE /\ ret = EXIT_SUCCESS /\ sync = 1
    /\ sync_callback = 2 /\ nsync = 2 /\ nbind = 1 /\ ncaps = 0
    /\ support_fullscreen = FALSE /\ support_activated = FALSE
    /\ support_maximized = FALSE /\ support_minimized = FALSE
    /\ support_identifier = FALSE
    /\ longest_app_id = InitialLongestAppId
    /\ mem = [h \in Handles |-> "live"]
    /\ toplevels = <<>>
    /\ out = <<>> /\ released = <<>> /\ err = <<>>
    /\ nconnect = 1 /\ argi = 1 /\ argv = <<>>
    /\ display_name \in DisplayNames /\ connect_ok = TRUE
    /\ output_format = NORMAL /\ custom_output_format = NULL
    /\ debug_log = FALSE
    /\ oom = FALSE
    /\ stdout_tty = FALSE
    /\ lswt104 = NotRun104
    /\ reqs = <<ReqSync(2)>> /\ events = <<>>
    /\ \E interface \in {ZWLR, EXT} :
          /\ zwlr_toplevel_manager = (IF interface = ZWLR THEN 1 ELSE 0)
          /\ ext_toplevel_list = (IF interface = EXT THEN 1 ELSE 0)
          /\ tl = [h \in Handles |->
                     IF interface = ZWLR
                     THEN [toplevel_new EXCEPT !.zwlr_handle = h]
                     ELSE [toplevel_new EXCEPT !.ext_handle = h]]
          /\ srv = [ kind |-> [h \in Handles |-> interface],
                     acked |-> {1},
                     log |-> <<>> ]   \* the events sent since

\* The compositor sends an app-id or the done of one of the handles.
SrvAppIdEvent ==
    /\ SrvTurn /\ Len(srv.log) < MaxRecordEvents
    /\ \E h \in Handles :
       \E e \in { EvAppId(h, str) : str \in AppIdStrings } \cup { EvDone(h) } :
          /\ events' = Append(events, e)
          /\ srv' = [srv EXCEPT !.log = Append(@, e)]
    /\ UNCHANGED <<mainVars, err, syncVars, mgrVars, capVars, tlVars, reqs>>

NextAppId ==
    \/ SrvAppIdEvent
    \/ SrvSync
    \/ Dispatch
    \/ LoopEnd

SpecAppId == InitAppId /\ [][NextAppId]_vars

\* C13: update_capabilities runs at most once, not before the
\* acknowledgment of sync #2 is dispatched and not after anything was
\* written; in every run in which the output functions were called it
\* has run exactly once.
C13_ResolvedOnceBeforeRender ==
    /\ ncaps <= 1
    /\ ncaps = 1 => (Acknowledged(2) /\ ~loop)
    /\ (pc = "loop" /\ ncaps = 1) => out = <<>>
    /\ out # <<>> => ncaps = 1

\* C14: when update_capabilities runs with zwlr_toplevel_manager set,
\* the four flags are supported and the identifier is not; with
\* ext_toplevel_list set, the identifier is supported and the four flags
\* are not; before it runs nothing is supported, and after it has run
\* the five values never change.
C14_ResolverStep ==
    /\ ncaps' # ncaps =>
          /\ zwlr_toplevel_manager # 0 => CapabilitiesOfZwlr'
          /\ ext_toplevel_list # 0 => CapabilitiesOfExt'
    /\ ncaps' = ncaps => UNCHANGED capVars

C14_CapabilitiesByDialect ==
    /\ [][C14_ResolverStep]_vars
    /\ [](ncaps = 0 =>
            /\ ~support_fullscreen /\ ~support_activated
            /\ ~support_maximized /\ ~support_minimized
            /\ ~support_identifier)
    /\ [](ncaps > 0 => (CapabilitiesOfZwlr \/ CapabilitiesOfExt))

\* C14's case: the capabilities were resolved with the zwlr manager
\* bound, events were dispatched after that, and main() has returned.
C14_Witness ==
    /\ pc = "exit" /\ ncaps = 1 /\ zwlr_toplevel_manager # 0
    /\ CapabilitiesOfZwlr
    /\ srv.nextra > 0 /\ srv.first_done # <<>>

(* ---------------------------------------------------------------------- *)
(* Properties of one record.                                              *)
(* ---------------------------------------------------------------------- *)
\* The last event of this type the compositor sent for handle 1, as a
\* one-element sequence; empty when it sent none.
RECURSIVE LastSent(_, _)
LastSent(type, log) ==
    IF log = <<>> THEN <<>>
    ELSE IF log[Len(log)].type = type THEN << log[Len(log)] >>
    ELSE LastSent(type, SubSeq(log, 1, Len(log) - 1))

\* The string carried by the last event of this type, NULL when none
\* was sent.
LastString(type) ==
    IF LastSent(type, srv.log) = <<>> THEN NULL
    ELSE LastSent(type, srv.log)[1].v

\* The record t holds the last title, app-id and identifier sent.
HoldsLastStrings(t) ==
    /\ t.title = LastString("title")
    /\ t.app_id = LastString("app_id")
    /\ t.identifier = LastString("identifier")

\* The four flags of the record t are the tokens of the set states.
FlagsAre(t, states) ==
    /\ t.maximized <=> "maximized" \in states
    /\ t.minimized <=> "minimized" \in states
    /\ t.activated <=> "activated" \in states
    /\ t.fullscreen <=> "fullscreen" \in states

\* C11: in a run without allocation failure, whatever title, app-id and
\* identifier events were sent for a record, once they are dispatched
\* each field holds the string of the last event for it, and these are
\* the values out_write_toplevel is called with.
C11_LastWriteWins ==
    ~oom =>
        /\ (pc = "loop" /\ events = <<>>) => HoldsLastStrings(tl[1])
        /\ pc = "exit" =>
              \A k \in 1..Len(out) :
                  out[k].op = "out_write_toplevel" => HoldsLastStrings(out[k].t)

\* C11's case: two different titles were sent before the done, and the
\* record was rendered.
C11_Witness ==
    /\ ~oom /\ pc = "exit" /\ Len(srv.log) = 3
    /\ srv.log[1].type = "title" /\ srv.log[2].type = "title"
    /\ srv.log[1].v # srv.log[2].v /\ srv.log[3].type = "done"
    /\ Len(out) = 3 /\ out[2].t.title = srv.log[2].v

\* C12: dispatching a state event sets each of the four flags of the
\* record to whether its token is in the event's set, whatever the flags
\* were, and changes nothing else of the record; with every event
\* dispatched the flags are those of the last state event.
C12_StateStep ==
    \A states \in RecordStateSets :
        (Handles_(EvState(1, states)) /\ mem[1] = "live") =>
            /\ FlagsAre(tl'[1], states)
            /\ tl'[1].title = tl[1].title /\ tl'[1].app_id = tl[1].app_id
            /\ tl'[1].listed = tl[1].listed

C12_StateReplacesFlags ==
    /\ [][C12_StateStep]_vars
    /\ []((events = <<>> /\ LastSent("state", srv.log) # <<>>) =>
            FlagsAre(tl[1], LastSent("state", srv.log)[1].s))

\* C12's case: a state event with all four tokens was followed by one
\* with maximized only.
C12_Witness ==
    /\ events = <<>> /\ Len(srv.log) = 2
    /\ srv.log[1] = EvState(1, StateTokens)
    /\ srv.log[2] = EvState(1, {"maximized"})
    /\ tl[1].maximized /\ ~tl[1].fullscreen /\ ~tl[1].activated
    /\ ~tl[1].minimized

\* The field of a record a string event is for.
FieldOf(t, type) ==
    IF type = "title" THEN t.title
    ELSE IF type = "app_id" THEN t.app_id
    ELSE t.identifier

\* C15: dispatching a title, app-id or identifier event leaves the field
\* either with the event's string or, the copy having failed, with the
\* value it had before and a message on stderr; ret and loop do not
\* change.
C15_StringStep ==
    \A e \in RecordEvents(1, srv.kind[1]) :
        (/\ e.type \in {"title", "app_id", "identifier"}
         /\ Handles_(e) /\ mem[1] = "live") =>
            /\ \/ FieldOf(tl'[1], e.type) = e.v
               \/ /\ FieldOf(tl'[1], e.type) = FieldOf(tl[1], e.type)
                  /\ err' # err
            /\ UNCHANGED <<ret, loop>>

C15_FailedCopyKeepsValue == [][C15_StringStep]_vars

\* C16: dispatching an identifier event for a record that has an
\* identifier writes a message to stderr, stores the new identifier
\* (when its copy can be allocated) and changes neither ret nor loop.
C16_IdentifierStep ==
    \A str \in RecordStrings :
        (/\ Handles_(EvIdentifier(1, str)) /\ mem[1] = "live"
         /\ tl[1].identifier # NULL) =>
            /\ Len(err') > Len(err)
            /\ err'[Len(err) + 1] = "identifier_changed"
            /\ ~oom => tl'[1].identifier = str
            /\ UNCHANGED <<ret, loop, pc>>

C16_SecondIdentifier == [][C16_IdentifierStep]_vars

\* C16's case: two different identifiers were sent and dispatched; the
\* record has the second, and the session goes on.
C16_Witness ==
    /\ ~oom /\ pc = "loop" /\ loop /\ events = <<>> /\ Len(srv.log) = 2
    /\ srv.log[1].type = "identifier" /\ srv.log[2].type = "identifier"
    /\ srv.log[1].v # srv.log[2].v
    /\ tl[1].identifier = srv.log[2].v
    /\ err = <<"identifier_changed">> /\ ret = EXIT_SUCCESS

(* ---------------------------------------------------------------------- *)
(* Properties of the startup.                                             *)
(* ---------------------------------------------------------------------- *)
HelpOrVersionFlags == {Arg_h, Arg_help, Arg_v, Arg_version}
FormatFlags == {Arg_j, Arg_json, Arg_c, Arg_custom}

\* A custom format the specification calls malformed: empty, one
\* character, or an unknown field code after the first character.
Malformed(fmt) ==
    \/ Len(fmt) <= 1
    \/ \E k \in 2..Len(fmt) : fmt[k] \notin {"t", "a", "i", "A", "f", "m", "M"}

\* A custom format the specification calls valid.
WellFormed(fmt) ==
    /\ Len(fmt) >= 2
    /\ fmt[1] # "0xC3"
    /\ \A k \in 2..Len(fmt) : fmt[k] \in {"t", "a", "i", "A", "f", "m", "M"}

\* The command lines of the specification's grammar, from args[i] on:
\* any number of --debug, and at most one of -j and -c <fmt> with a valid
\* format.
RECURSIVE AcceptedFrom(_, _, _)
AcceptedFrom(args, i, selected) ==
    IF i > Len(args) THEN TRUE
    ELSE IF args[i] = Arg_debug THEN AcceptedFrom(args, i + 1, selected)
    ELSE IF args[i] \in {Arg_j, Arg_json}
    THEN ~selected /\ AcceptedFrom(args, i + 1, TRUE)
    ELSE IF args[i] \in {Arg_c, Arg_custom}
    THEN /\ ~selected /\ i < Len(args) /\ WellFormed(args[i + 1])
         /\ AcceptedFrom(args, i + 2, TRUE)
    ELSE FALSE

Accepted(args) == AcceptedFrom(args, 1, FALSE)

\* The arguments before argv[k] are valid options, so the scan reaches
\* argv[k].
Reaches(k) == k \in 1..Len(argv) /\ Accepted(SubSeq(argv, 1, k - 1))

\* The arguments before argv[k] select an output format.
SelectedBefore(k) == \E j \in 1..(k - 1) : argv[j] \in FormatFlags

NoSession == nconnect = 0 /\ nsync = 0 /\ reqs = <<>> /\ out = <<>>

\* C17: with an accepted command line and WAYLAND_DISPLAY unset, main()
\* prints an error, returns 1 and has not called wl_display_connect.
C17_NoDisplayName ==
    (pc # "start" /\ Accepted(argv) /\ display_name = NULL) =>
        /\ pc = "exit" /\ exit_code = EXIT_FAILURE
        /\ err # <<>> /\ err[Len(err)] = "no_display"
        /\ NoSession

\* C17's case: a command line with options was accepted and
\* WAYLAND_DISPLAY is unset.
C17_Witness ==
    /\ pc = "exit" /\ display_name = NULL
    /\ argv = <<Arg_debug, Arg_c, <<",", "t">> >>
    /\ exit_code = EXIT_FAILURE /\ nconnect = 0

\* C18: when the scan reaches -h, --help, -v or --version, main()
\* returns 0 and no session is attempted, whatever valid options came
\* before.
C18_HelpOrVersion ==
    (pc # "start" /\ \E k \in 1..Len(argv) :
                        Reaches(k) /\ argv[k] \in HelpOrVersionFlags) =>
        /\ pc = "exit" /\ exit_code = EXIT_SUCCESS
        /\ NoSession

\* C18's case: --version after a format selection and --debug.
C18_Witness ==
    /\ pc = "exit" /\ argv = <<Arg_json, Arg_debug, Arg_version>>
    /\ exit_code = EXIT_SUCCESS /\ nconnect = 0

\* C19: when the scan reaches -j, --json, -c or --custom after an output
\* format was selected, main() returns 1 and no session is attempted.
C19_FormatTwice ==
    (pc # "start" /\ \E k \in 1..Len(argv) :
                        /\ Reaches(k) /\ SelectedBefore(k)
                        /\ argv[k] \in FormatFlags) =>
        /\ pc = "exit" /\ exit_code = EXIT_FAILURE
        /\ NoSession

\* C19's case: -j after -c with a valid format.
C19_Witness ==
    /\ pc = "exit" /\ argv = <<Arg_c, <<",", "t">>, Arg_j>>
    /\ exit_code = EXIT_FAILURE /\ nconnect = 0

\* C20: out_check_custom_format rejects every malformed format and
\* accepts every format of two or more characters with an ASCII first
\* character and field codes only; when the scan reaches -c with a
\* malformed format main() returns 1 without a connection attempt, and
\* with a valid one the format is selected.
C20_CustomFormat ==
    /\ \A fmt \in Args :
          /\ Malformed(fmt) => ~out_check_custom_format(fmt).ok
          /\ WellFormed(fmt) => out_check_custom_format(fmt).ok
    /\ (pc # "start" /\ \E k \in 1..(Len(argv) - 1) :
                           /\ Reaches(k) /\ ~SelectedBefore(k)
                           /\ argv[k] \in {Arg_c, Arg_custom}
                           /\ Malformed(argv[k + 1])) =>
          /\ pc = "exit" /\ exit_code = EXIT_FAILURE
          /\ NoSession
    /\ (pc # "start" /\ Len(argv) = 2 /\ argv[1] \in {Arg_c, Arg_custom}
                     /\ WellFormed(argv[2])) =>
          /\ started \notin {"usage_error", "help_or_version"}
          /\ output_format = CUSTOM
          /\ ~oom => custom_output_format = argv[2]

\* C20's case: a format with an unknown field code after a valid one was
\* rejected.
C20_Witness ==
    /\ pc = "exit" /\ argv = <<Arg_debug, Arg_custom, <<",", "t", "x">> >>
    /\ exit_code = EXIT_FAILURE /\ nconnect = 0
    /\ err = <<"format_unknown_field">>

(* ---------------------------------------------------------------------- *)
(* Properties of the output.                                              *)
(* ---------------------------------------------------------------------- *)
\* The calls of out_write_toplevel, in order.
Writes == SelectSeq(out, LAMBDA c : c.op = "out_write_toplevel")

\* The dialect that is active.
DialectA == zwlr_toplevel_manager # 0
DialectB == ext_toplevel_list # 0

\* The value of a field code for the record t, as the specification has
\* it: a string as it is ("<NULL>" when it was never set), true or false
\* for a flag, and unsupported for a field of the other dialect.
FieldValue(code, t) ==
    IF code = "t" THEN (IF t.title = NULL THEN NullText ELSE t.title)
    ELSE IF code = "a" THEN (IF t.app_id = NULL THEN NullText ELSE t.app_id)
    ELSE IF code = "i"
    THEN (IF ~DialectB THEN <<"unsupported">>
          ELSE IF t.identifier = NULL THEN NullText ELSE t.identifier)
    ELSE IF ~DialectA THEN <<"unsupported">>
    ELSE IF code = "A" THEN (IF t.activated THEN <<"true">> ELSE <<"false">>)
    ELSE IF code = "f" THEN (IF t.fullscreen THEN <<"true">> ELSE <<"false">>)
    ELSE IF code = "m" THEN (IF t.minimized THEN <<"true">> ELSE <<"false">>)
    ELSE (IF t.maximized THEN <<"true">> ELSE <<"false">>)

\* The values of the codes codes[k], codes[k + 1], ... joined by the
\* delimiter.
RECURSIVE Joined(_, _, _, _)
Joined(codes, k, delimiter, t) ==
    IF k > Len(codes) THEN <<>>
    ELSE IF k = Len(codes) THEN FieldValue(codes[k], t)
    ELSE FieldValue(codes[k], t) \o <<delimiter>>
         \o Joined(codes, k + 1, delimiter, t)

KeyTitle == "            \"title\": "
KeyAppId == ",\n            \"app-id\": "
KeyIdentifier == "            \"identifier\": "
KeyActivated == "            \"activated\": "
KeyFullscreen == "            \"fullscreen\": "
KeyMinimized == "            \"minimized\": "
KeyMaximized == "            \"maximized\": "

\* How often the key is in the text.
Occurrences(key, text) == Cardinality({ k \in 1..Len(text) : text[k] = key })

\* C22: in JSON output every toplevel object has the keys title and
\* app-id once; it has each of activated, fullscreen, minimized,
\* maximized and identifier once when that field is supported and not at
\* all when it is not; the four flags are there only with dialect A
\* active, the identifier only with dialect B.
C22_JsonFields ==
    output_format = JSON =>
        \A k \in 1..Len(Writes) :
            LET text == Writes[k].text
            IN /\ Occurrences(KeyTitle, text) = 1
               /\ Occurrences(KeyAppId, text) = 1
               /\ Occurrences(KeyActivated, text) = (IF support_activated THEN 1 ELSE 0)
               /\ Occurrences(KeyFullscreen, text) = (IF support_fullscreen THEN 1 ELSE 0)
               /\ Occurrences(KeyMinimized, text) = (IF support_minimized THEN 1 ELSE 0)
               /\ Occurrences(KeyMaximized, text) = (IF support_maximized THEN 1 ELSE 0)
               /\ Occurrences(KeyIdentifier, text) = (IF support_identifier THEN 1 ELSE 0)
               /\ ~DialectA =>
                     \A key \in {KeyActivated, KeyFullscreen, KeyMinimized,
                                 KeyMaximized} : Occurrences(key, text) = 0
               /\ ~DialectB => Occurrences(KeyIdentifier, text) = 0

\* C22's case: two records of dialect B were written as JSON: each
\* object has the identifier and none of the four flags.
C22_Witness ==
    /\ pc = "exit" /\ output_format = JSON /\ DialectB
    /\ Len(Writes) = 2
    /\ \A k \in 1..2 :
          /\ Occurrences(KeyIdentifier, Writes[k].text) = 1
          /\ Occurrences(KeyActivated, Writes[k].text) = 0
          /\ Occurrences(KeyTitle, Writes[k].text) = 1

\* What ends the value of a key in a toplevel object.
ValueEnds == {",\n", KeyAppId, "\n        }"}

\* What the text has between the key and the end of the key's value.
ValueOf(key, text) ==
    LET p == CHOOSE k \in 1..Len(text) : text[k] = key
        q == CHOOSE k \in (p + 1)..Len(text) :
                 /\ text[k] \in ValueEnds
                 /\ \A j \in (p + 1)..(k - 1) : text[j] \notin ValueEnds
    IN SubSeq(text, p + 1, q - 1)

\* The characters of str from str[k] on, with a backslash before each
\* double quote and backslash, and \n and \t for newline and tab.
RECURSIVE Escaped(_, _)
Escaped(str, k) ==
    IF k > Len(str) THEN <<>>
    ELSE (IF str[k] = "\"" THEN <<"\\", "\"">>
          ELSE IF str[k] = "\\" THEN <<"\\", "\\">>
          ELSE IF str[k] = "\n" THEN <<"\\", "n">>
          ELSE IF str[k] = "\t" THEN <<"\\", "t">>
          ELSE <<str[k]>>)
         \o Escaped(str, k + 1)

\* A string as a JSON string.
JsonString(str) == <<"\"">> \o Escaped(str, 1) \o <<"\"">>

\* C23: in JSON output the value written for a title, an app-id and an
\* identifier that is set is the string between double quotes, with
\* each double quote, backslash, newline and tab of it escaped.
C23_JsonStringsEscaped ==
    output_format = JSON =>
        \A k \in 1..Len(Writes) :
            LET text == Writes[k].text
                t == Writes[k].t
            IN /\ t.title # NULL => ValueOf(KeyTitle, text) = JsonString(t.title)
               /\ t.app_id # NULL => ValueOf(KeyAppId, text) = JsonString(t.app_id)
               /\ (support_identifier /\ t.identifier # NULL) =>
                     ValueOf(KeyIdentifier, text) = JsonString(t.identifier)

\* C23 for the strings the code gets right: a title or app-id without a
\* backslash is written as a JSON string.
C23_WithoutBackslash ==
    output_format = JSON =>
        \A k \in 1..Len(Writes) :
            LET text == Writes[k].text
                t == Writes[k].t
            IN /\ (t.title # NULL /\ ~InSeq("\\", t.title)) =>
                     ValueOf(KeyTitle, text) = JsonString(t.title)
               /\ (t.app_id # NULL /\ ~InSeq("\\", t.app_id)) =>
                     ValueOf(KeyAppId, text) = JsonString(t.app_id)

\* C24: in JSON output a title or an app-id that was never set is
\* written as null, and so is, with the identifier supported, an
\* identifier that was never set; the record is written and main()
\* returns.
C24_JsonNull ==
    output_format = JSON =>
        /\ pc # "killed"
        /\ \A k \in 1..Len(Writes) :
              LET text == Writes[k].text
                  t == Writes[k].t
              IN /\ t.title = NULL => ValueOf(KeyTitle, text) = <<"null">>
                 /\ t.app_id = NULL => ValueOf(KeyAppId, text) = <<"null">>
                 /\ (support_identifier /\ t.identifier = NULL) =>
                       ValueOf(KeyIdentifier, text) = <<"null">>

\* C24 for the two fields written by write_json: a title or an app-id
\* that was never set is written as null.
C24_TitleAndAppIdNull ==
    output_format = JSON =>
        \A k \in 1..Len(Writes) :
            LET text == Writes[k].text
                t == Writes[k].t
            IN /\ t.title = NULL => ValueOf(KeyTitle, text) = <<"null">>
               /\ t.app_id = NULL => ValueOf(KeyAppId, text) = <<"null">>

(* ---------------------------------------------------------------------- *)
(* Properties of the session, continued.                                  *)
(* ---------------------------------------------------------------------- *)
\* C25: wl_registry_bind is called for a manager or list at most once in
\* a run, whatever is advertised and how often.
C25_AtMostOneBind == nbind <= 1

\* C25 for the two dialects against each other: once one dialect is
\* bound, the other is never bound.
C25_OneDialect == ~(BindRequested(ZWLR) /\ BindRequested(EXT))

\* C26, as the code has it: a manager or list is bound in the handler of
\* an advertisement and nowhere else, at once when an eligible
\* advertisement is dispatched with nothing bound, which is before the
\* acknowledgment of sync #1 for an advertisement sent before it; the
\* acknowledgment of sync #1 binds nothing: it tests whether a dialect
\* is bound and requests sync #2 exactly then.
C26_BindStep ==
    /\ nbind' # nbind =>
          \E g \in Globals : Eligible(g) /\ Handles_(EvGlobal(g[1], g[2]))
    /\ \A g \in Globals :
          (/\ Eligible(g) /\ Handles_(EvGlobal(g[1], g[2]))
           /\ zwlr_toplevel_manager = 0 /\ ext_toplevel_list = 0) =>
              /\ nbind' = nbind + 1
              /\ reqs' = Append(reqs, ReqBind(nbind + 1, g[1], nsync < 2))
    /\ Handles_(EvCallbackDone(1)) =>
          /\ UNCHANGED mgrVars
          /\ nsync' = 2 <=> (zwlr_toplevel_manager # 0 \/ ext_toplevel_list # 0)

C26_BoundInAdvertisement ==
    /\ [][C26_BindStep]_vars
    /\ [](nsync = 2 => nbind >= 1)

\* C26's case: a manager is bound and sync #1 is not acknowledged.
C26_Witness ==
    /\ pc = "loop" /\ events = <<>>
    /\ nbind = 1 /\ zwlr_toplevel_manager # 0
    /\ 1 \notin srv.acked

\* C26, as the specification has it: nothing is bound before the
\* acknowledgment of sync #1 was dispatched.
C26_BoundAfterAck1 == nbind > 0 => Acknowledged(1)

\* toplevel_destroy has run for the record of this handle.
Destroyed(h) == InSeq(<<"Toplevel", h>>, released)

\* C27: nothing is destroyed twice, no record is written twice, every
\* record written is destroyed by the same walk of the list, and a
\* record that was destroyed is out of the list with no event left to
\* dispatch and the loop over, whatever events were sent and however
\* often a done was repeated.
C27_DestroyedOnce ==
    /\ NoDuplicates(released)
    /\ NoDuplicates(RenderedHandles)
    /\ \A h \in Handles :
          /\ InSeq(h, RenderedHandles) => Destroyed(h)
          /\ Destroyed(h) <=> mem[h] = "freed"
          /\ mem[h] = "freed" =>
                /\ pc \in {"exit", "killed"} /\ events = <<>>
                /\ ~InSeq(h, toplevels)

\* C27's case: two records had their done, one of them twice, and main()
\* has rendered and destroyed each of them once.
C27_Witness ==
    /\ pc = "exit" /\ Len(RenderedHandles) = 2
    /\ srv.done_again # {}
    /\ \A h \in Handles : Destroyed(h) /\ mem[h] = "freed"
    /\ Len(SelectSeq(released, LAMBDA r : r[1] = "Toplevel")) = 2

\* The place of a released object in the order of the specification:
\* records (with their handles), the pending sync, the manager or list,
\* the registry, the connection.
ReleaseRank(r) ==
    IF r[1] \in {"Toplevel", "zwlr_handle", "ext_handle"} THEN 1
    ELSE IF r[1] = "sync_callback" THEN 2
    ELSE IF r[1] \in {"zwlr_toplevel_manager", "ext_toplevel_list"} THEN 3
    ELSE IF r[1] = "wl_registry" THEN 4
    ELSE 5

\* C28: when main() returns after it had connected, whether it rendered
\* or not, it has destroyed every record of the list, then the sync
\* callback if one was pending, then the manager or list it holds, then
\* the registry, then the connection, each of them once and in this
\* order.
C28_TeardownOrder ==
    (pc = "exit" /\ started = "connected") =>
        /\ NoDuplicates(released)
        /\ \A i, j \in 1..Len(released) :
              i < j => ReleaseRank(released[i]) <= ReleaseRank(released[j])
        /\ \A h \in Handles : tl[h].listed => Destroyed(h)
        /\ toplevels = <<>>
        /\ InSeq(<<"sync_callback", sync_callback>>, released) <=> sync_callback # 0
        /\ \A r \in { released[k] : k \in 1..Len(released) } :
              /\ r[1] = "sync_callback" => r[2] = sync_callback
              /\ r[1] = "zwlr_toplevel_manager" => r[2] = zwlr_toplevel_manager
              /\ r[1] = "ext_toplevel_list" => r[2] = ext_toplevel_list
        /\ zwlr_toplevel_manager # 0 =>
              InSeq(<<"zwlr_toplevel_manager", zwlr_toplevel_manager>>, released)
        /\ ext_toplevel_list # 0 =>
              InSeq(<<"ext_toplevel_list", ext_toplevel_list>>, released)
        /\ Len(released) >= 2
        /\ released[Len(released) - 1] = <<"wl_registry", 0>>
        /\ released[Len(released)] = <<"wl_display", 0>>

\* C28's case: the loop ended with a record in the list, the second sync
\* pending and the zwlr manager bound.
C28_Witness ==
    /\ pc = "exit" /\ started = "connected"
    /\ released = << <<"zwlr_handle", 1>>, <<"Toplevel", 1>>,
                     <<"sync_callback", 2>>, <<"zwlr_toplevel_manager", 1>>,
                     <<"wl_registry", 0>>, <<"wl_display", 0>> >>

\* C28 on the other path: main() did not render, and destroyed a record
\* and the ext list.
C28_WitnessFailure ==
    /\ pc = "exit" /\ ret = EXIT_FAILURE /\ out = <<>>
    /\ released = << <<"ext_handle", 1>>, <<"Toplevel", 1>>,
                     <<"ext_toplevel_list", 1>>,
                     <<"wl_registry", 0>>, <<"wl_display", 0>> >>

\* C29: with the transport up and every sync acknowledged, the loop
\* ends in every run; loop is cleared by the acknowledgment of sync #1
\* when nothing is bound then, and by the acknowledgment of sync #2
\* otherwise, and there is no third sync request.
C29_LoopTerminates ==
    /\ (pc = "loop") ~> (pc = "exit")
    /\ [](nsync <= 2 /\ ~SyncRequested(3))
    /\ []((Acknowledged(1) /\ nsync = 1) => (~loop /\ ret = EXIT_FAILURE))
    /\ [](Acknowledged(2) => ~loop)
    /\ [](~loop => IF ret = EXIT_FAILURE
                   THEN Acknowledged(1) /\ nsync = 1
                   ELSE Acknowledged(2) /\ nsync = 2)

\* C29's case: both syncs were acknowledged and main() has returned.
C29_Witness ==
    /\ pc = "exit" /\ ~dispatch_failed
    /\ Acknowledged(2) /\ nsync = 2 /\ ret = EXIT_SUCCESS
    /\ srv.nextra > 0

(* ---------------------------------------------------------------------- *)
(* Properties of one record, continued.                                   *)
(* ---------------------------------------------------------------------- *)
\* An event of this type was sent for handle 1.
Sent(type) == LastSent(type, srv.log) # <<>>

\* C30: dispatching a closed event changes no record, not the list, not
\* ret and not loop, whether the record had its done or not; a record
\* that had its done is written when main() renders, closed or not.
C30_ClosedStep ==
    Handles_(EvClosed(1)) =>
        UNCHANGED <<tl, toplevels, mem, longest_app_id, ret, loop, pc, err>>

C30_ClosedIgnored ==
    /\ [][C30_ClosedStep]_vars
    /\ []((pc = "exit" /\ ret = EXIT_SUCCESS /\ Sent("done")) =>
            /\ RenderedHandles = <<1>>
            /\ ~oom => HoldsLastStrings(Writes[1].t))

\* C30's case: the closed came after the done, and the record was
\* written.
C30_Witness ==
    /\ pc = "exit" /\ Len(srv.log) = 3
    /\ srv.log[1].type = "title" /\ srv.log[2] = EvDone(1)
    /\ srv.log[3] = EvClosed(1)
    /\ RenderedHandles = <<1>> /\ Writes[1].t.title = srv.log[1].v

\* C30's other case: the closed came before the done.
C30_WitnessClosedFirst ==
    /\ pc = "exit" /\ Len(srv.log) = 2
    /\ srv.log[1] = EvClosed(1) /\ srv.log[2] = EvDone(1)
    /\ RenderedHandles = <<1>>

(* ---------------------------------------------------------------------- *)
(* The records and the session: what holds in every state.                *)
(* ---------------------------------------------------------------------- *)
\* The records that exist: announced, allocated and not yet destroyed.
Live == { h \in Handles : mem[h] = "live" }

\* C31: a record that exists holds exactly one of the two handles, and it
\* is the handle of the interface whose manager or list announced it.
C31_ExactlyOneHandle ==
    \A h \in Live :
       /\ (tl[h].zwlr_handle # 0) # (tl[h].ext_handle # 0)
       /\ srv.kind[h] \in {ZWLR, EXT}
       /\ srv.kind[h] = ZWLR => tl[h].zwlr_handle = h
       /\ srv.kind[h] = EXT => tl[h].ext_handle = h

\* A record of each dialect is reached, announced and with an event of
\* its handle dispatched.
C31_Witness ==
    /\ Live # {}
    /\ \A h \in Live : tl[h].listed /\ tl[h].title # NULL
    /\ \E h \in Live : srv.kind[h] = EXT /\ tl[h].ext_handle = h
                                         /\ tl[h].zwlr_handle = 0

C31_WitnessZwlr ==
    \E h \in Live : /\ srv.kind[h] = ZWLR /\ tl[h].zwlr_handle = h
                    /\ tl[h].ext_handle = 0 /\ tl[h].listed

\* The sync requests whose acknowledgment main() has not dispatched: the
\* request is on its way or the callback's done is.
Outstanding ==
    { k \in 1..nsync : InSeq(ReqSync(k), reqs) \/ InSeq(EvCallbackDone(k), events) }

\* C32: wl_display_sync is called at most twice and at most one callback
\* is outstanding at a time; the second call is made only while the
\* acknowledgment of the first is dispatched and a manager or list is
\* bound; sync_callback is non-null exactly while a callback is
\* outstanding, and it is that callback.
C32_SyncStep ==
    nsync' # nsync =>
        \/ pc = "start" /\ nsync = 0 /\ nsync' = 1
        \/ /\ Handles_(EvCallbackDone(1)) /\ nsync = 1 /\ nsync' = 2
           /\ (zwlr_toplevel_manager # 0 \/ ext_toplevel_list # 0)

C32_AtMostTwoSyncs ==
    /\ [][C32_SyncStep]_vars
    /\ [](/\ nsync <= 2
          /\ Cardinality(Outstanding) <= 1
          /\ sync_callback # 0 <=> Outstanding # {}
          /\ sync_callback # 0 => Outstanding = {sync_callback})

\* C32's case: the second sync was requested and is outstanding.
C32_Witness ==
    /\ pc = "loop" /\ nsync = 2 /\ Acknowledged(1)
    /\ sync_callback = 2 /\ Outstanding = {2}

C32_WitnessBothAcknowledged ==
    /\ pc = "loop" /\ nsync = 2 /\ Acknowledged(2)
    /\ sync_callback = 0 /\ Outstanding = {}

\* C33: once loop is cleared no listener is called any more: while main()
\* is still in its loop statement no event is dispatched, and the
\* records, the list and the two handles stay as they were when loop was
\* cleared.
C33_AfterFlagStep ==
    (pc = "loop" /\ ~loop) =>
        /\ \A k \in 1..Len(events) : ~Handles_(events[k])
        /\ pc' = "loop" => UNCHANGED <<tl, mem, toplevels, mgrVars>>

C33_NoHandlerAfterFlag == [][C33_AfterFlagStep]_vars

\* What does hold after loop is cleared: it stays cleared, no request is
\* sent but a bind, and main() renders only when every event it has read
\* was dispatched.
C33_FlagStays ==
    [][(pc = "loop" /\ ~loop) =>
          /\ ~loop'
          /\ UNCHANGED <<nsync, syncVars, capVars>>
          /\ pc' # "loop" => events = <<>>]_vars

\* C34: a record that exists is in the list exactly when its listed flag
\* is set, and it is there once; what is rendered are records whose done
\* was sent and dispatched, each of them once.
C34_ListedIffInRegistry ==
    /\ NoDuplicates(toplevels)
    /\ \A h \in Live : tl[h].listed <=> InSeq(h, toplevels)
    /\ \A h \in Handles : InSeq(h, toplevels) => h \in Live
    /\ NoDuplicates(RenderedHandles)
    /\ \A k \in 1..Len(RenderedHandles) :
          /\ InSeq(RenderedHandles[k], srv.first_done)
          /\ tl[RenderedHandles[k]].listed

\* C34's case: main() has rendered with one record whose done came twice
\* and one record that never had a done.
C34_Witness ==
    /\ pc = "exit" /\ Len(RenderedHandles) = 1
    /\ RenderedHandles[1] \in srv.done_again
    /\ \E h \in Handles : mem[h] # "none" /\ ~InSeq(h, srv.first_done)
                                          /\ ~InSeq(h, RenderedHandles)

\* The events sent for the handle h, in order.
LogOf(h) == SelectSeq(srv.log, LAMBDA e : e.h = h)

\* The record t holds what the last title, app-id, identifier and state
\* event of the handle h carried, and what toplevel_new set where there
\* was no such event.
HoldsLastOf(t, h) ==
    /\ \A type \in {"title", "app_id", "identifier"} :
          FieldOf(t, type) = IF LastSent(type, LogOf(h)) = <<>> THEN NULL
                             ELSE LastSent(type, LogOf(h))[1].v
    /\ FlagsAre(t, IF LastSent("state", LogOf(h)) = <<>> THEN {}
                   ELSE LastSent("state", LogOf(h))[1].s)

\* C35: the title, app-id, identifier and state events sent for a listed
\* record are dispatched into it as long as main() is in its loop, so
\* with every event dispatched the record holds the values of the last
\* ones, and these are the values it is rendered with; the list keeps its
\* order the whole time, and the records are rendered in it.
C35_UpdatedAfterDone ==
    /\ pc = "loop" => toplevels = ListedOrder
    /\ (pc = "loop" /\ events = <<>>) =>
          \A h \in Handles : HoldsLastOf(tl[h], h)
    /\ pc = "exit" =>
          /\ RenderedHandles = Reverse(ListedOrder)
          /\ \A k \in 1..Len(Writes) : HoldsLastOf(Writes[k].t, Writes[k].self)

\* C35's case: a listed record got two titles and an app-id, the other
\* record an event too, and both were rendered.
C35_Witness ==
    /\ pc = "exit" /\ Len(srv.log) = 3
    /\ srv.log[1] = EvTitle(1, <<"a">>)
    /\ srv.log[2] = EvTitle(1, <<"b", "c">>)
    /\ srv.log[3].h = 2 /\ srv.log[3].type \in {"state", "identifier"}
    /\ Len(Writes) = 2 /\ Writes[1].t.title = <<"b", "c">>
    /\ Writes[2].t # tl[1] /\ Writes[2].t.title = NULL

\* C36: with the ext list bound every record has its four flags false,
\* and with the zwlr manager bound every record has no identifier, in
\* every state and in what is rendered.
C36_FieldsByDialect ==
    LET Records == { tl[h] : h \in { x \in Handles : mem[x] # "none" } }
                   \cup { Writes[k].t : k \in 1..Len(Writes) }
    IN /\ DialectB => \A t \in Records :
             ~t.fullscreen /\ ~t.activated /\ ~t.maximized /\ ~t.minimized
       /\ DialectA => \A t \in Records : t.identifier = NULL

\* C36's case: an ext session whose record got its identifier and was
\* rendered.
C36_Witness ==
    /\ pc = "exit" /\ DialectB /\ Writes # <<>>
    /\ \A k \in 1..Len(Writes) : Writes[k].t.identifier # NULL

\* A zwlr session whose record got a state event and was rendered.
C36_WitnessZwlr ==
    /\ pc = "exit" /\ DialectA /\ Writes # <<>>
    /\ \A k \in 1..Len(Writes) : Writes[k].t.maximized

\* The stored custom format is one the custom branch of
\* out_write_toplevel takes: not NULL, longer than one character, and
\* every character after the delimiter a field code.
FormatStored ==
    /\ custom_output_format # NULL
    /\ strlen(custom_output_format) > 1
    /\ \A k \in 2..Len(custom_output_format) :
          custom_output_format[k] \in FieldCodes

\* C37: when main() is about to render records in custom format the
\* stored format is valid, and no run in custom format is ended by an
\* assertion of out_write_toplevel.
C37_CustomFormatValid ==
    output_format = CUSTOM =>
        /\ (pc = "loop" /\ toplevels # <<>>) => FormatStored
        /\ pc # "killed"

\* What does hold: in a run in which no allocation fails the stored
\* format is valid and every record of the list is written.
C37_ValidWithoutFailure ==
    (output_format = CUSTOM /\ ~oom) =>
        /\ FormatStored
        /\ pc # "killed"
        /\ pc = "exit" => Len(Writes) = Cardinality({ h \in Handles : tl[h].listed })

(* ---------------------------------------------------------------------- *)
(* lswt 1.0.4 (lines 310-1059): the toplevels are grouped by output.      *)
(* ---------------------------------------------------------------------- *)
\* Every variable of lswt 1.1.0.
vars110 == <<pc, exit_code, started, dispatch_failed, syncVars, mgrVars,
             capVars, tlVars, out, released, nconnect, oom, argv,
             display_name, connect_ok, stdout_tty, optVars, err, reqs,
             events, srv>>

\* The struct Output of the k-th wl_output global is k; this is the one
\* handle_handle_done allocates for no_output.
NoOutput104 == MaxGlobals + 1

\* toplevel_manager_handle_toplevel: calloc, the initialisation and
\* list_init(&toplevel->outputs, 1).
toplevel_manager_handle_toplevel(s, handle) ==
    [s EXCEPT !.Toplevel[handle] =
        [ mem |-> "live", output |-> FALSE, listed |-> FALSE, outputs |-> <<>> ]]

\* handle_handle_output_enter; output is wl_output_get_user_data(wl_output),
\* 0 when that is NULL.  Nothing looks at what the lists already hold.
handle_handle_output_enter(s, toplevel, output) ==
    IF output = 0
    THEN [s EXCEPT !.Toplevel[toplevel].output = TRUE,
                   !.err = Append(@, "unadvertised_output")]
    ELSE [s EXCEPT !.Toplevel[toplevel].output = TRUE,
                   !.Output[output].toplevels = Append(@, toplevel),
                   !.Toplevel[toplevel].outputs = Append(@, output)]

\* handle_handle_done: the first done appends the toplevel to
\* all_toplevels and, when it entered no output, to the toplevels of
\* no_output, which is allocated and appended to outputs when needed.
handle_handle_done(s, toplevel) ==
    IF s.Toplevel[toplevel].listed THEN s
    ELSE LET listed == [s EXCEPT !.Toplevel[toplevel].listed = TRUE,
                                 !.all_toplevels = Append(@, toplevel)]
             with_no_output ==
                 IF listed.no_output # 0 THEN listed
                 ELSE [listed EXCEPT !.no_output = NoOutput104,
                                     !.outputs = Append(@, NoOutput104)]
         IN IF listed.Toplevel[toplevel].output THEN listed
            ELSE [with_no_output EXCEPT
                     !.Output[NoOutput104].toplevels = Append(@, toplevel),
                     !.Toplevel[toplevel].outputs = Append(@, NoOutput104)]

\* The lists dump_and_free_data hands to print_and_destroy_toplevels, one
\* after the other: all_toplevels with --json, --tsv or a single output,
\* else the toplevels of each output in the order of outputs.
RECURSIVE lists_of_outputs(_, _)
lists_of_outputs(s, i) ==
    IF i > Len(s.outputs) THEN <<>>
    ELSE s.Output[s.outputs[i]].toplevels \o lists_of_outputs(s, i + 1)

dump_lists(s) ==
    IF s.json \/ s.tsv \/ Len(s.outputs) = 1
    THEN s.all_toplevels
    ELSE lists_of_outputs(s, 1)

\* The first element of list that is in it for the second time, 0 when
\* there is none.
first_repeated(list) ==
    LET again == { k \in 1..Len(list) : \E j \in 1..(k - 1) : list[j] = list[k] }
    IN IF again = {} THEN 0
       ELSE CHOOSE k \in again : \A j \in again : k <= j

\* print_and_destroy_toplevels over the lists of dump_and_free_data: each
\* item is given to print_toplevel and then to destroy_toplevel.  An item
\* that was destroyed already is freed memory: print_toplevel reads it
\* and destroy_toplevel frees it again, which the process survives
\* (survives) or does not.
print_and_destroy_toplevels(s, survives) ==
    LET list == dump_lists(s)
        k == first_repeated(list)
    IN IF k = 0 \/ survives
       THEN [s EXCEPT !.printed = list, !.destroyed = list, !.pc = "exit"]
       ELSE [s EXCEPT !.printed = SubSeq(list, 1, k),
                      !.destroyed = SubSeq(list, 1, k - 1),
                      !.pc = "killed"]

\* lswt 1.0.4 after the acknowledgment of the first sync was dispatched:
\* n wl_output globals were advertised and bound, the toplevel manager
\* is bound and the second sync is requested.
Start104(n, json, tsv) ==
    [ pc |-> "loop", loop |-> TRUE, json |-> json, tsv |-> tsv,
      outputs |-> [k \in 1..n |-> k],
      no_output |-> 0,
      all_toplevels |-> <<>>,
      Output |-> [o \in 1..NoOutput104 |-> [toplevels |-> <<>>]],
      Toplevel |-> [h \in Handles |->
                      [ mem |-> "none", output |-> FALSE, listed |-> FALSE,
                        outputs |-> <<>> ]],
      err |-> <<>>,
      printed |-> <<>>,     \* the calls of print_toplevel, in order
      destroyed |-> <<>>,   \* the calls of destroy_toplevel, in order
      nenter |-> 0 ]        \* output_enter events sent so far

\* The runs of lswt 1.0.4: any number of outputs and each output format.
\* The variables of lswt 1.1.0 stay as they are before its main().
Init104 ==
    /\ InitProgram
    /\ oom = FALSE /\ stdout_tty = FALSE /\ argv = <<>>
    /\ display_name \in DisplayNames /\ connect_ok = TRUE
    /\ \E n \in 0..MaxGlobals, json \in BOOLEAN, tsv \in BOOLEAN :
          lswt104 = Start104(n, json, tsv)

\* The manager announces a toplevel: the handles are 1, 2, ...
ToplevelAnnounced104 ==
    /\ lswt104.pc = "loop" /\ lswt104.loop
    /\ \E handle \in Handles :
          /\ lswt104.Toplevel[handle].mem = "none"
          /\ \A h \in 1..(handle - 1) : lswt104.Toplevel[h].mem # "none"
          /\ lswt104' = toplevel_manager_handle_toplevel(lswt104, handle)
    /\ UNCHANGED vars110

\* A toplevel enters an output: one of the outputs bound, also one it is
\* on already, or an output the client has no object for.
OutputEnter104 ==
    /\ lswt104.pc = "loop" /\ lswt104.loop /\ lswt104.nenter < MaxExtra
    /\ \E toplevel \in Handles, output \in 0..MaxGlobals :
          /\ lswt104.Toplevel[toplevel].mem = "live"
          /\ output = 0 \/ InSeq(output, lswt104.outputs)
          /\ lswt104' = [handle_handle_output_enter(lswt104, toplevel, output)
                           EXCEPT !.nenter = @ + 1]
    /\ UNCHANGED vars110

\* The done of a toplevel, for the first time or again.
Done104 ==
    /\ lswt104.pc = "loop" /\ lswt104.loop
    /\ \E toplevel \in Handles :
          /\ lswt104.Toplevel[toplevel].mem = "live"
          /\ lswt104' = handle_handle_done(lswt104, toplevel)
    /\ UNCHANGED vars110

\* sync_handle_done for the second sync: "loop = false;".
SyncDone104 ==
    /\ lswt104.pc = "loop" /\ lswt104.loop
    /\ lswt104' = [lswt104 EXCEPT !.loop = FALSE]
    /\ UNCHANGED vars110

\* main() after its loop: ret is EXIT_SUCCESS, so dump_and_free_data.
LoopEnd104 ==
    /\ lswt104.pc = "loop" /\ ~lswt104.loop
    /\ \E survives \in BOOLEAN :
          lswt104' = print_and_destroy_toplevels(lswt104, survives)
    /\ UNCHANGED vars110

Next104 ==
    \/ ToplevelAnnounced104
    \/ OutputEnter104
    \/ Done104
    \/ SyncDone104
    \/ LoopEnd104

Spec104 == Init104 /\ [][Next104]_vars

\* C38: in lswt 1.0.4, whatever output_enter and done events were sent,
\* dump_and_free_data gives every toplevel to print_toplevel at most once
\* and to destroy_toplevel at most once.
C38_PrintedAndDestroyedOnce ==
    \A h \in Handles :
       /\ Occurrences(h, lswt104.printed) <= 1
       /\ Occurrences(h, lswt104.destroyed) <= 1

\* What does hold: with --json, --tsv or a single struct Output the
\* toplevels printed are those of all_toplevels, each once.
C38_OnceWhenNotGrouped ==
    (lswt104.pc # "loop"
     /\ (lswt104.json \/ lswt104.tsv \/ Len(lswt104.outputs) = 1)) =>
        /\ lswt104.pc = "exit"
        /\ lswt104.printed = lswt104.all_toplevels
        /\ \A h \in Handles : Occurrences(h, lswt104.printed) <= 1

\* The app-ids toplevel_set_app_id has stored so far, in any record: those
\* of the app-id events sent and dispatched.
AppIdsSet ==
    LET pending == Len(SelectSeq(events, LAMBDA e : e.type # "callback_done"))
    IN { srv.log[k].v : k \in { j \in 1..(Len(srv.log) - pending) :
                                  srv.log[j].type = "app_id" } }

\* The number of bytes out_write_toplevel writes for this app-id, before
\* the padding.
PrintedLength(str) == Len(write_padded_maybe_quoted(0, str))

MaxOf(set) == CHOOSE m \in set : \A x \in set : x <= m

\* C39: longest_app_id is at least 7 and less than 40 and never
\* decreases, and it is the largest of 7 and the printed lengths below 40
\* of the app-ids set so far, in whatever record and whether or not the
\* value was overwritten or the record had its done.
C39_LongestAppId ==
    /\ [][longest_app_id' >= longest_app_id]_vars
    /\ [](/\ InitialLongestAppId <= longest_app_id
          /\ longest_app_id < max_app_id_padding
          /\ longest_app_id =
                MaxOf({InitialLongestAppId}
                      \cup { PrintedLength(str) : str \in
                               { s \in AppIdsSet :
                                   PrintedLength(s) < max_app_id_padding } }))

\* What does hold: the same with the length real_strlen computes in
\* place of the bytes printed.
C39_LongestByRealStrlen ==
    /\ [][longest_app_id' >= longest_app_id]_vars
    /\ [](/\ InitialLongestAppId <= longest_app_id
          /\ longest_app_id < max_app_id_padding
          /\ longest_app_id =
                MaxOf({InitialLongestAppId}
                      \cup { real_strlen(str) : str \in
                               { s \in AppIdsSet :
                                   real_strlen(s) < max_app_id_padding } }))

\* The rendered app-id column is wider than longest_app_id though the
\* app-id is printed in less than 40 bytes.
C39_ColumnOverrun ==
    /\ pc = "exit"
    /\ \E k \in 1..Len(Writes) :
          /\ Writes[k].t.app_id # NULL
          /\ PrintedLength(Writes[k].t.app_id) > longest_app_id
          /\ PrintedLength(Writes[k].t.app_id) < max_app_id_padding

====
